---- MODULE Spec2Model ----
(***************************************************************************)
(* A model of clippy_utils::source: the source-text cache (SourceText),    *)
(* the source range cursor (SourceFileRange), the span projections         *)
(* (SpanLike) and the macro call-site walk (walk_to_ctxt).                  *)
(*                                                                         *)
(* Texts are sequences of UTF-8 bytes, each byte written as a string.  The *)
(* two-byte character U+00E9 is the pair "C3","A9"; every other character  *)
(* of the alphabets is one byte.                                           *)
(*                                                                         *)
(* A u32 (BytePos, RelativeBytePos) is held as the signed value of its bit *)
(* pattern (what cast_signed returns): 0 .. 2^31-1 stand for themselves    *)
(* and a negative k stands for 2^32 + k.  All magnitudes the model reaches *)
(* are far below 2^31, so wrapping_sub and wrapping_add are exact as plain *)
(* integer subtraction and addition on these representatives.              *)
(*                                                                         *)
(* The cursor actions model a build without debug assertions, where        *)
(* dbg_check_range is the empty function (source.rs line 370).             *)
(***************************************************************************)
EXTENDS Integers, Sequences, FiniteSets, TLC

VARIABLES
    sm,     \* the SourceMap: a sequence of SourceFile records
    cur,    \* the SourceFileRange under consideration (file = 0: none)
    call,   \* the last operation called on it, its arguments and its result
    hyg,    \* the hygiene data: the expansions made so far
    walk    \* the last span-model operation, its arguments and its result

vars == <<sm, cur, call, hyg, walk>>

----------------------------------------------------------------------------
(* Bounds *)

\* Characters in the text of the variable file of Spec.
MaxLen == 2

\* Characters in the text of the variable file of SpecWs.
MaxWsLen == 4

\* Macro expansions in SpecHyg.
MaxExpns == 3

\* The largest BytePos of a span given to the operations of SpecHyg.
MaxSpanPos == 1

----------------------------------------------------------------------------
(* Option values *)

None == [some |-> FALSE]

Some(v) == [some |-> TRUE, val |-> v]

----------------------------------------------------------------------------
(* Texts *)

\* The characters of the files of Spec, as UTF-8 byte sequences.
Alphabet == {<<"a">>, <<" ">>, <<"C3", "A9">>}

\* The characters of the files of SpecWs.
WsAlphabet == {<<" ">>, <<"\n">>, <<"/">>, <<"*">>}

RECURSIVE Strings(_, _)
\* Every text of at most n characters of the alphabet.
Strings(alphabet, n) ==
    IF n = 0 THEN {<<>>}
    ELSE LET shorter == Strings(alphabet, n - 1)
         IN  shorter \cup {s \o c : s \in shorter, c \in alphabet}

\* char::is_whitespace, for the characters of the alphabets.
IsWhitespace(b) == b \in {" ", "\n"}

\* A UTF-8 continuation byte (0b10xxxxxx).
IsContinuation(b) == b = "A9"

\* str::is_char_boundary(i), i a usize held as a u32 representative.
IsCharBoundary(s, i) ==
    \/ i = 0
    \/ i = Len(s)
    \/ i > 0 /\ i < Len(s) /\ ~IsContinuation(s[i + 1])

\* str::get(lo..hi): the substring, or None when the range is inverted, out
\* of bounds or off a character boundary.  A negative representative is an
\* index of 2^31 or more, which is out of bounds.
StrGet(s, lo, hi) ==
    IF /\ lo >= 0 /\ hi >= 0 /\ lo <= hi /\ hi <= Len(s)
       /\ IsCharBoundary(s, lo) /\ IsCharBoundary(s, hi)
    THEN Some(SubSeq(s, lo + 1, hi))
    ELSE None

RECURSIVE LeadingWs(_)
\* s.len() - s.trim_start().len()
LeadingWs(s) ==
    IF s # <<>> /\ IsWhitespace(Head(s)) THEN 1 + LeadingWs(Tail(s)) ELSE 0

RECURSIVE TrailingWs(_)
\* s.len() - s.trim_end().len()
TrailingWs(s) ==
    IF s # <<>> /\ IsWhitespace(s[Len(s)])
    THEN 1 + TrailingWs(SubSeq(s, 1, Len(s) - 1))
    ELSE 0

\* str::strip_prefix(pat) for a string or char pattern: the rest, or None.
StripPrefix(s, pat) ==
    IF Len(pat) <= Len(s) /\ SubSeq(s, 1, Len(pat)) = pat
    THEN Some(SubSeq(s, Len(pat) + 1, Len(s)))
    ELSE None

\* str::strip_suffix(pat) for a string or char pattern: the rest, or None.
StripSuffix(s, pat) ==
    IF Len(pat) <= Len(s) /\ SubSeq(s, Len(s) - Len(pat) + 1, Len(s)) = pat
    THEN Some(SubSeq(s, 1, Len(s) - Len(pat)))
    ELSE None

----------------------------------------------------------------------------
(* u32 comparisons on the signed representatives *)

\* a <= b as u32.
ULe(a, b) == IF (a >= 0) = (b >= 0) THEN a <= b ELSE a >= 0

\* a < b as u32.
ULt(a, b) == a # b /\ ULe(a, b)

----------------------------------------------------------------------------
(* The source map *)

\* A SourceFile.  src is the text of a local file; a foreign file has no src
\* and an external_src that is AbsentOk until its one load is attempted, and
\* Present (with ext_text) or AbsentErr, frozen, after it.
SourceFile(start_pos, source_len, src, external, ext_text) ==
    [start_pos |-> start_pos, source_len |-> source_len, src |-> src,
     external |-> external, ext_text |-> ext_text]

\* The text of the foreign file, as its loader reads it.
ForeignText == <<"a">>

\* A foreign file of the length of ForeignText in the state `external`.
ForeignFile(start_pos, external) ==
    SourceFile(start_pos, Len(ForeignText), None, external,
               IF external = "Present" THEN ForeignText ELSE <<>>)

\* A source map of three files: a local file with the text t between two
\* foreign files in the state `external`.  Each file starts one past the end
\* of the file before it, as SourceMap allocates them.
SourceMapOf(t, external) ==
    << ForeignFile(0, external),
       SourceFile(Len(ForeignText) + 1, Len(t), Some(t), "Unneeded", <<>>),
       ForeignFile(Len(ForeignText) + Len(t) + 2, external) >>

\* The end of the last file of the source map: the largest BytePos in it.
EndOfMap == sm[Len(sm)].start_pos + sm[Len(sm)].source_len

\* Every BytePos of the source map.
Positions == 0 .. EndOfMap

\* SourceMap::lookup_source_file_idx: the last file that starts at or before
\* pos (files.partition_point(|f| f.start_pos <= pos) - 1), as an index of sm.
LookupSourceFileIdx(pos) ==
    Cardinality({i \in 1 .. Len(sm) : sm[i].start_pos <= pos})

\* SourceFile::add_external_src, called by
\* SourceMap::ensure_source_file_source_present: the file after the call.
\* Only an unfrozen external_src (AbsentOk) runs the loader, whose result is
\* `loaded`; the outcome is stored and frozen.
EnsureSourcePresent(file, loaded) ==
    IF file.external = "AbsentOk"
    THEN IF loaded.some
         THEN [file EXCEPT !.external = "Present", !.ext_text = loaded.val]
         ELSE [file EXCEPT !.external = "AbsentErr"]
    ELSE file

\* SourceText::new without the check that the external source is present.
SourceTextNewUnchecked(file) ==
    IF file.src.some THEN Some(file.src.val) ELSE Some(file.ext_text)

\* SourceText::new, after ensure_source_file_source_present ran on `file`:
\* the text the handle points to, or None.
SourceTextNew(file) ==
    IF ~(file.src.some \/ file.external = "Present") THEN None
    ELSE IF file.src.some THEN Some(file.src.val)
    ELSE IF file.external = "Present" THEN Some(file.ext_text)
    ELSE None

----------------------------------------------------------------------------
(* SourceFileRange: the accessors *)

NoCursor == [file |-> 0, start |-> 0, end |-> 0]

\* SourceFileRange::file
File(c) == sm[c.file]

\* SourceFileRange::file_text: the text behind the cursor's SourceText.
FileText(c) == SourceTextNew(File(c)).val

\* SourceFileRange::current_text
CurrentText(c) == StrGet(FileText(c), c.start, c.end)

\* SourceFileRange::source_range
SourceRange(c) ==
    [start |-> c.start + File(c).start_pos, end |-> c.end + File(c).start_pos]

\* SourceFileRange::into_text and as_text: SourceText::with_index on the
\* current range.
AsText(c) == StrGet(FileText(c), c.start, c.end)

\* dbg_check_range without the look at the text.
DbgCheckRangeFailsNoText(c, start, end) ==
    \/ ULt(end, start)
    \/ ULt(File(c).source_len, end)

\* The condition under which dbg_check_range panics in a build with debug
\* assertions.
DbgCheckRangeFails(c, start, end) ==
    \/ ULt(end, start)
    \/ ULt(File(c).source_len, end)
    \/ ~StrGet(FileText(c), start, end).some

\* SourceFileRange::set_range, without debug assertions.
SetRange(c, start, end) == [c EXCEPT !.start = start, !.end = end]

\* The record of a call: the operation, its arguments (a position or a range
\* lo..hi, a pattern), the range before the call, the result (Some or None)
\* and the text returned, if the operation returns one.
Call(op, lo, hi, pat, res) ==
    [op |-> op, lo |-> lo, hi |-> hi, pat |-> pat,
     pre_start |-> cur.start, pre_end |-> cur.end, res |-> res, out |-> <<>>]

----------------------------------------------------------------------------
(* SourceFileRange::new *)

\* SourceFileRange::new with the end of the range left absolute.
NewCursorAbsoluteEnd(file, idx, lo, hi) ==
    LET pos == lo - file.start_pos
    IN  IF SourceTextNew(file).some
        THEN Some(SetRange([file |-> idx, start |-> 0, end |-> 0], pos, hi))
        ELSE None

\* The cursor SourceFileRange::new builds for lo..hi in the source map whose
\* file idx has been through ensure_source_file_source_present, or None.
NewCursor(file, idx, lo, hi) ==
    LET pos == lo - file.start_pos
        end == hi - file.start_pos
    IN  IF SourceTextNew(file).some
        THEN Some(SetRange([file |-> idx, start |-> 0, end |-> 0], pos, end))
        ELSE None

\* SourceFileRange::new(sm, lo..hi).  `loaded` is what the file loader
\* returns if this call is the one that loads a foreign file.
New(lo, hi, loaded) ==
    LET idx  == LookupSourceFileIdx(lo)
        file == EnsureSourcePresent(sm[idx], loaded)
        res  == NewCursor(file, idx, lo, hi)
    IN  /\ sm[idx].external # "AbsentOk" => ~loaded.some
        /\ sm' = [sm EXCEPT ![idx] = file]
        /\ cur' = IF res.some THEN res.val ELSE NoCursor
        /\ call' = Call("new", lo, hi, <<>>, res.some)
        /\ UNCHANGED <<hyg, walk>>

----------------------------------------------------------------------------
(* rustc_lexer::tokenize, for the characters of the alphabets *)

\* The characters that continue an identifier: the letters of the
\* alphabets and the two bytes of U+00E9.
IsIdentByte(b) == b \in {"a", "e", "f", "i", "l", "s", "C3", "A9"}

RECURSIVE RunLen(_, _, _)
\* The length of the longest run of bytes of s, from index i (1-based), that
\* are whitespace (ws) or identifier bytes (~ws).
RunLen(s, i, ws) ==
    IF i <= Len(s) /\ (IF ws THEN IsWhitespace(s[i]) ELSE IsIdentByte(s[i]))
    THEN 1 + RunLen(s, i + 1, ws)
    ELSE 0

RECURSIVE UntilNewline(_, _)
\* Cursor::eat_until('\n'): the bytes of s from index i up to a line feed.
UntilNewline(s, i) ==
    IF i <= Len(s) /\ s[i] # "\n" THEN 1 + UntilNewline(s, i + 1) ELSE 0

RECURSIVE BlockComment(_, _, _)
\* Cursor::block_comment, after the opening "/*": scanning s from index i at
\* nesting depth `depth`, the index one past the comment and whether it is
\* terminated.
BlockComment(s, i, depth) ==
    IF i > Len(s) THEN [next |-> i, terminated |-> FALSE]
    ELSE IF s[i] = "/" /\ i < Len(s) /\ s[i + 1] = "*"
    THEN BlockComment(s, i + 2, depth + 1)
    ELSE IF s[i] = "*" /\ i < Len(s) /\ s[i + 1] = "/"
    THEN IF depth = 1 THEN [next |-> i + 2, terminated |-> TRUE]
         ELSE BlockComment(s, i + 2, depth - 1)
    ELSE BlockComment(s, i + 1, depth)

\* Cursor::advance_token: the first token of the non-empty text s.
FirstToken(s) ==
    IF IsWhitespace(s[1])
    THEN [kind |-> "Whitespace", len |-> RunLen(s, 1, TRUE), terminated |-> TRUE]
    ELSE IF s[1] = "/" /\ Len(s) >= 2 /\ s[2] = "/"
    THEN [kind |-> "LineComment", len |-> 2 + UntilNewline(s, 3), terminated |-> TRUE]
    ELSE IF s[1] = "/" /\ Len(s) >= 2 /\ s[2] = "*"
    THEN LET c == BlockComment(s, 3, 1)
         IN  [kind |-> "BlockComment", len |-> c.next - 1, terminated |-> c.terminated]
    ELSE IF s[1] = "/"
    THEN [kind |-> "Slash", len |-> 1, terminated |-> TRUE]
    ELSE IF s[1] = "*"
    THEN [kind |-> "Star", len |-> 1, terminated |-> TRUE]
    ELSE IF IsIdentByte(s[1])
    THEN [kind |-> "Ident", len |-> RunLen(s, 1, FALSE), terminated |-> TRUE]
    ELSE [kind |-> "Punct", len |-> 1, terminated |-> TRUE]

RECURSIVE Tokenize(_)
\* rustc_lexer::tokenize(s, FrontmatterAllowed::No): the tokens of s in order.
Tokenize(s) ==
    IF s = <<>> THEN <<>>
    ELSE LET t == FirstToken(s)
         IN  <<t>> \o Tokenize(SubSeq(s, t.len + 1, Len(s)))

\* ends_with_line_comment_or_broken.  The alphabets hold no quote, so no
\* literal token arises.
EndsWithLineCommentOrBroken(text) ==
    LET tokens == Tokenize(text)
    IN  IF tokens = <<>> THEN FALSE
        ELSE LET last == tokens[Len(tokens)]
             IN  \/ last.kind = "LineComment"
                 \/ last.kind = "BlockComment" /\ ~last.terminated

----------------------------------------------------------------------------
(* SourceFile::lines *)

\* analyze_source_file: the start of each line, ascending: 0 and the index
\* after each line feed, without a start at the very end of the text.
LineStarts(text) ==
    ({0} \cup {i \in 1 .. Len(text) : text[i] = "\n"}) \ {Len(text)}

\* lines.partition_point(|pos| pos <= x), x a u32.
LinesAtOrBefore(text, x) == Cardinality({l \in LineStarts(text) : ULe(l, x)})

\* lines.partition_point(|pos| pos < x), x a u32.
LinesBefore(text, x) == Cardinality({l \in LineStarts(text) : ULt(l, x)})

\* lines.get(n): the n-th line start, counting from 0, or None.
LinesGet(text, n) ==
    LET ls == LineStarts(text)
    IN  IF n >= 0 /\ n < Cardinality(ls)
        THEN Some(CHOOSE l \in ls : Cardinality({k \in ls : k < l}) = n)
        ELSE None

----------------------------------------------------------------------------
(* SourceFileRange: the mutating operations, as functions of the cursor.   *)
(* Each gives the cursor after the call and whether the call returned Some. *)

Ret(some, c) == [some |-> some, cur |-> c]

\* set_range_between_other(lo..hi), lo and hi positions of the source map.
SetRangeBetweenOther(c, lo, hi) ==
    LET other_start == lo - File(c).start_pos
        other_end   == hi - File(c).start_pos
    IN  IF c.end < other_start
        THEN Ret(TRUE, [c EXCEPT !.start = c.end, !.end = other_start])
        ELSE IF c.start > other_end
        THEN Ret(TRUE, [c EXCEPT !.end = c.start, !.start = other_end])
        ELSE Ret(FALSE, c)

\* set_start_if_before that stores the position before it tests it.
SetStartIfBeforeEager(c, pos) ==
    LET rel_pos == pos - File(c).start_pos
    IN  Ret(rel_pos <= c.start, [c EXCEPT !.start = rel_pos])

\* set_start_if_before(pos)
SetStartIfBefore(c, pos) ==
    LET rel_pos == pos - File(c).start_pos
    IN  IF rel_pos <= c.start
        THEN Ret(TRUE, [c EXCEPT !.start = rel_pos])
        ELSE Ret(FALSE, c)

\* set_start_if_within(pos)
SetStartIfWithin(c, pos) ==
    LET rel_pos == pos - File(c).start_pos
    IN  IF ULe(c.start, rel_pos) /\ ULe(rel_pos, c.end)
        THEN Ret(TRUE, [c EXCEPT !.start = rel_pos])
        ELSE Ret(FALSE, c)

\* set_end_if_after comparing the position with the start of the range.
SetEndIfAfterStart(c, pos) ==
    LET rel_pos == pos - File(c).start_pos
    IN  IF c.start <= rel_pos
        THEN Ret(TRUE, [c EXCEPT !.end = rel_pos])
        ELSE Ret(FALSE, c)

\* set_end_if_after(pos)
SetEndIfAfter(c, pos) ==
    LET rel_pos == pos - File(c).start_pos
    IN  IF c.end <= rel_pos
        THEN Ret(TRUE, [c EXCEPT !.end = rel_pos])
        ELSE Ret(FALSE, c)

\* set_end_if_within without the comparison with the start of the range.
SetEndIfWithinNoStart(c, pos) ==
    LET rel_pos == pos - File(c).start_pos
    IN  IF ULe(rel_pos, c.end)
        THEN Ret(TRUE, [c EXCEPT !.end = rel_pos])
        ELSE Ret(FALSE, c)

\* set_end_if_within(pos)
SetEndIfWithin(c, pos) ==
    LET rel_pos == pos - File(c).start_pos
    IN  IF ULe(c.start, rel_pos) /\ ULe(rel_pos, c.end)
        THEN Ret(TRUE, [c EXCEPT !.end = rel_pos])
        ELSE Ret(FALSE, c)

\* edit_range(f) that commits nothing.
EditRangeNoCommit(c, r) == Ret(r.some, c)

\* edit_range(f), r being what f returned for (file_text, start..end).
EditRange(c, r) ==
    IF r.some THEN Ret(TRUE, SetRange(c, r.val.start, r.val.end))
    ELSE Ret(FALSE, c)

Range(start, end) == [start |-> start, end |-> end]

\* The closure of remove_leading_whitespace.
RemoveLeadingWhitespaceFn(src, start, end) ==
    LET text == StrGet(src, start, end)
    IN  IF ~text.some THEN None
        ELSE Some(Range(start + LeadingWs(text.val), end))

\* The closure of add_trailing_whitespace taking one whitespace character.
AddTrailingWhitespaceFnOne(src, start, end) ==
    LET tail == StrGet(src, end, Len(src))
    IN  IF ~tail.some THEN None
        ELSE IF tail.val # <<>> /\ IsWhitespace(Head(tail.val))
        THEN Some(Range(start, end + 1))
        ELSE Some(Range(start, end))

\* The closure of add_trailing_whitespace.
AddTrailingWhitespaceFn(src, start, end) ==
    LET tail == StrGet(src, end, Len(src))
    IN  IF ~tail.some THEN None
        ELSE LET trimmed == SubSeq(tail.val, LeadingWs(tail.val) + 1, Len(tail.val))
             IN  Some(Range(start, Len(src) - Len(trimmed)))

\* The closure of add_leading_match(pat).
AddLeadingMatchFn(src, start, end, pat) ==
    LET head == StrGet(src, 0, start)
    IN  IF ~head.some THEN None
        ELSE LET s == StripSuffix(head.val, pat)
             IN  IF s.some THEN Some(Range(Len(s.val), end)) ELSE None

\* The closure of add_trailing_match(pat).
AddTrailingMatchFn(src, start, end, pat) ==
    LET tail == StrGet(src, end, Len(src))
    IN  IF ~tail.some THEN None
        ELSE LET trimmed == StripPrefix(tail.val, pat)
             IN  IF trimmed.some
                 THEN Some(Range(start, Len(src) - Len(trimmed.val)))
                 ELSE None

\* The closure of set_to_prefix(pat).
SetToPrefixFn(src, start, end, pat) ==
    LET text == StrGet(src, start, end)
    IN  IF ~text.some THEN None
        ELSE LET rest == StripPrefix(text.val, pat)
             IN  IF rest.some THEN Some(Range(start, end - Len(rest.val)))
                 ELSE None

\* The closure of set_to_suffix(pat).
SetToSuffixFn(src, start, end, pat) ==
    LET text == StrGet(src, start, end)
    IN  IF ~text.some THEN None
        ELSE LET rest == StripSuffix(text.val, pat)
             IN  IF rest.some THEN Some(Range(start + Len(rest.val), end))
                 ELSE None

RemoveLeadingWhitespace(c) ==
    EditRange(c, RemoveLeadingWhitespaceFn(FileText(c), c.start, c.end))

AddTrailingWhitespace(c) ==
    EditRange(c, AddTrailingWhitespaceFn(FileText(c), c.start, c.end))

AddLeadingMatch(c, pat) ==
    EditRange(c, AddLeadingMatchFn(FileText(c), c.start, c.end, pat))

AddTrailingMatch(c, pat) ==
    EditRange(c, AddTrailingMatchFn(FileText(c), c.start, c.end, pat))

SetToPrefix(c, pat) ==
    EditRange(c, SetToPrefixFn(FileText(c), c.start, c.end, pat))

SetToSuffix(c, pat) ==
    EditRange(c, SetToSuffixFn(FileText(c), c.start, c.end, pat))

\* lines.partition_point(|pos| pos < range.end) of add_leading_whitespace:
\* the index of the line start that ends the text searched after the range.
NextLine(text, end) == LinesBefore(text, end)

\* add_leading_whitespace
AddLeadingWhitespace(c) ==
    LET src    == FileText(c)
        before == StrGet(src, 0, c.start)
    IN  IF ~before.some THEN Ret(FALSE, c)
        ELSE
        LET text_before      == SubSeq(before.val, 1,
                                       Len(before.val) - TrailingWs(before.val))
            post_search_line == LinesAtOrBefore(src, Len(text_before))
            search_line_end  == LinesGet(src, post_search_line)
            \* The conditions of the let chain, up to the `?` in it.
            crosses ==
                /\ search_line_end.some
                /\ ULe(search_line_end.val, c.start)
                /\ LET line == LinesGet(src, post_search_line - 1)
                       search_start == IF line.some THEN line.val ELSE 0
                   IN  EndsWithLineCommentOrBroken(
                           SubSeq(text_before, search_start + 1, Len(text_before)))
            next       == LinesGet(src, NextLine(src, c.end))
            next_start == IF next.some THEN next.val ELSE File(c).source_len
            after      == StrGet(src, c.end, next_start)
        IN  IF crosses /\ ~after.some THEN Ret(FALSE, c)
            ELSE IF /\ crosses
                    /\ \E i \in 1 .. Len(Tokenize(after.val)) :
                           Tokenize(after.val)[i].kind # "Whitespace"
            THEN Ret(TRUE, c)
            ELSE Ret(TRUE, SetRange(c, Len(text_before), c.end))

\* SourceFile::lookup_line: the index of the line that holds pos, or None
\* when no line starts at or before it.
LookupLine(text, pos) ==
    IF LinesAtOrBefore(text, pos) = 0 THEN None
    ELSE Some(LinesAtOrBefore(text, pos) - 1)

\* get_line_indent
GetLineIndent(c) ==
    LET src  == FileText(c)
        line == LookupLine(src, c.start)
    IN  IF line.some /\ LinesGet(src, line.val).some
        THEN LET start == LinesGet(src, line.val).val
                 next  == LinesGet(src, line.val + 1)
                 end   == IF next.some THEN next.val ELSE File(c).source_len
                 text  == SubSeq(src, start + 1, end)
             IN  SubSeq(text, 1, LeadingWs(text))
        ELSE <<>>

----------------------------------------------------------------------------
(* The cursor's operations as actions.  `call` holds the call that has just *)
(* returned; the caller then goes on with the cursor (Chain) and may call   *)
(* again.                                                                   *)

NoCall ==
    [op |-> "none", lo |-> 0, hi |-> 0, pat |-> <<>>,
     pre_start |-> 0, pre_end |-> 0, res |-> FALSE, out |-> <<>>]

\* The patterns given to the match operations: the char 'a' and the char
\* U+00E9.
Patterns == {<<"a">>, <<"C3", "A9">>}

\* What the loader of a foreign file may return.
LoaderResults == {None, Some(ForeignText)}

\* The positions of file idx of the source map, both ends included.
PositionsOf(idx) == sm[idx].start_pos .. sm[idx].start_pos + sm[idx].source_len

\* get_source_range: the caller builds its cursor with SourceFileRange::new.
DoNew(lo, hi, loaded) ==
    /\ call = NoCall
    /\ cur = NoCursor
    /\ New(lo, hi, loaded)

\* A call of `op` on the live cursor that returned r.
Act(op, lo, hi, pat, r) ==
    /\ call = NoCall
    /\ cur.file # 0
    /\ cur' = r.cur
    /\ call' = Call(op, lo, hi, pat, r.some)
    /\ UNCHANGED <<sm, hyg, walk>>

\* The caller lets its cursor go out of scope.
Drop ==
    /\ call = NoCall
    /\ cur.file # 0
    /\ cur' = NoCursor
    /\ UNCHANGED <<sm, call, hyg, walk>>

\* The caller takes the result of the call and goes on.
Chain ==
    /\ call # NoCall
    /\ call' = NoCall
    /\ UNCHANGED <<sm, cur, hyg, walk>>

DoSetRangeBetweenOther(lo, hi) ==
    Act("set_range_between_other", lo, hi, <<>>, SetRangeBetweenOther(cur, lo, hi))

DoSetStartIfBefore(pos) ==
    Act("set_start_if_before", pos, pos, <<>>, SetStartIfBefore(cur, pos))

DoSetStartIfWithin(pos) ==
    Act("set_start_if_within", pos, pos, <<>>, SetStartIfWithin(cur, pos))

DoSetEndIfAfter(pos) ==
    Act("set_end_if_after", pos, pos, <<>>, SetEndIfAfter(cur, pos))

DoSetEndIfWithin(pos) ==
    Act("set_end_if_within", pos, pos, <<>>, SetEndIfWithin(cur, pos))

DoRemoveLeadingWhitespace ==
    Act("remove_leading_whitespace", 0, 0, <<>>, RemoveLeadingWhitespace(cur))

DoAddLeadingWhitespace ==
    Act("add_leading_whitespace", 0, 0, <<>>, AddLeadingWhitespace(cur))

DoAddTrailingWhitespace ==
    Act("add_trailing_whitespace", 0, 0, <<>>, AddTrailingWhitespace(cur))

\* get_line_indent: the cursor is left as it is.
DoGetLineIndent ==
    /\ call = NoCall
    /\ cur.file # 0
    /\ call' = [Call("get_line_indent", 0, 0, <<>>, TRUE)
                    EXCEPT !.out = GetLineIndent(cur)]
    /\ UNCHANGED <<sm, cur, hyg, walk>>

DoAddLeadingMatch(pat) ==
    Act("add_leading_match", 0, 0, pat, AddLeadingMatch(cur, pat))

DoAddTrailingMatch(pat) ==
    Act("add_trailing_match", 0, 0, pat, AddTrailingMatch(cur, pat))

DoSetToPrefix(pat) ==
    Act("set_to_prefix", 0, 0, pat, SetToPrefix(cur, pat))

DoSetToSuffix(pat) ==
    Act("set_to_suffix", 0, 0, pat, SetToSuffix(cur, pat))

----------------------------------------------------------------------------
(* Spec: one cursor over a three-file source map, every operation with     *)
(* every position, range and pattern as argument.  The two foreign files   *)
(* are files whose source could not be loaded.                              *)

NoHygiene == <<>>

NoWalk == [op |-> "none"]

Init ==
    /\ sm \in {SourceMapOf(t, "AbsentErr") : t \in Strings(Alphabet, MaxLen)}
    /\ cur = NoCursor
    /\ call = NoCall
    /\ hyg = NoHygiene
    /\ walk = NoWalk

\* The positions of file idx that lie on a character boundary of its text.
BoundariesOf(idx) ==
    {p \in PositionsOf(idx) :
        IsCharBoundary(SourceTextNew(sm[idx]).val, p - sm[idx].start_pos)}

\* The ranges lo..hi a caller may build its cursor on: the valid ranges of
\* the local file.
NewValid ==
    \E lo \in BoundariesOf(2), hi \in BoundariesOf(2) :
        lo <= hi /\ DoNew(lo, hi, None)

\* The operations that take no position.
TextOps ==
    \/ DoRemoveLeadingWhitespace
    \/ DoAddLeadingWhitespace
    \/ DoAddTrailingWhitespace
    \/ \E pat \in Patterns : DoAddLeadingMatch(pat)
    \/ \E pat \in Patterns : DoAddTrailingMatch(pat)
    \/ \E pat \in Patterns : DoSetToPrefix(pat)
    \/ \E pat \in Patterns : DoSetToSuffix(pat)

Next ==
    \/ NewValid
    \/ Chain
    \/ Drop
    \/ \E lo \in Positions, hi \in Positions :
           lo <= hi /\ DoSetRangeBetweenOther(lo, hi)
    \/ \E pos \in Positions : DoSetStartIfBefore(pos)
    \/ \E pos \in Positions : DoSetStartIfWithin(pos)
    \/ \E pos \in Positions : DoSetEndIfAfter(pos)
    \/ \E pos \in Positions : DoSetEndIfWithin(pos)
    \/ TextOps

Spec == Init /\ [][Next]_vars

----------------------------------------------------------------------------
(* SpecNew: SourceFileRange::new on every range of the source map, the     *)
(* foreign files not loaded yet.                                            *)

InitNew ==
    /\ sm \in {SourceMapOf(t, "AbsentOk") : t \in Strings(Alphabet, MaxLen)}
    /\ cur = NoCursor
    /\ call = NoCall
    /\ hyg = NoHygiene
    /\ walk = NoWalk

NextNew ==
    \/ \E lo \in Positions, hi \in Positions, loaded \in LoaderResults :
           lo <= hi /\ DoNew(lo, hi, loaded)
    \/ Chain
    \/ Drop

SpecNew == InitNew /\ [][NextNew]_vars

----------------------------------------------------------------------------
(* SpecWs: a cursor on a valid range of a file of whitespace, line feeds,  *)
(* slashes and stars, and the whitespace operations.                        *)

InitWs ==
    /\ sm \in {SourceMapOf(t, "AbsentErr") : t \in Strings(WsAlphabet, MaxWsLen)}
    /\ cur = NoCursor
    /\ call = NoCall
    /\ hyg = NoHygiene
    /\ walk = NoWalk

NextWs ==
    \/ NewValid
    \/ Chain
    \/ Drop
    \/ DoRemoveLeadingWhitespace
    \/ DoAddLeadingWhitespace
    \/ DoAddTrailingWhitespace
    \/ DoGetLineIndent

SpecWs == InitWs /\ [][NextWs]_vars

----------------------------------------------------------------------------
(* Spans and hygiene *)

\* SyntaxContext::root()
Root == 0

\* SpanData { lo, hi, ctxt, parent }
SpanData(lo, hi, ctxt, parent) ==
    [lo |-> lo, hi |-> hi, ctxt |-> ctxt, parent |-> parent]

\* Span::new without the parent.
SpanNewNoParent(lo, hi, ctxt, parent) ==
    LET l == IF lo > hi THEN hi ELSE lo
        h == IF lo > hi THEN lo ELSE hi
    IN  [lo |-> l, len |-> h - l, ctxt |-> ctxt, parent |-> None]

\* Span::new: lo and hi are put in order and the span is stored as its
\* start, its length, its context and its parent.
SpanNew(lo, hi, ctxt, parent) ==
    LET l == IF lo > hi THEN hi ELSE lo
        h == IF lo > hi THEN lo ELSE hi
    IN  [lo |-> l, len |-> h - l, ctxt |-> ctxt, parent |-> parent]

\* Span::data
Data(span) == SpanData(span.lo, span.lo + span.len, span.ctxt, span.parent)

\* Span::from_expansion
FromExpansion(span) == Data(span).ctxt # Root

\* ctxt.outer_expn_data().call_site: hyg[k] is the call site of the
\* expansion that made the context k.
CallSite(ctxt) == hyg[ctxt]

\* hygiene::walk_chain that takes one step at most.
WalkChainOnce(span, to) ==
    IF Data(span).ctxt # to /\ FromExpansion(span)
    THEN CallSite(Data(span).ctxt)
    ELSE span

RECURSIVE WalkChain(_, _)
\* hygiene::walk_chain that steps before it compares.
WalkChainEager(span, to) ==
    IF FromExpansion(span)
    THEN LET site == CallSite(Data(span).ctxt)
         IN  IF Data(site).ctxt # to THEN WalkChain(site, to) ELSE site
    ELSE span

\* hygiene::walk_chain: while the span is not in `to` and comes from an
\* expansion, go to the call site of that expansion.
WalkChain(span, to) ==
    IF Data(span).ctxt # to /\ FromExpansion(span)
    THEN WalkChain(CallSite(Data(span).ctxt), to)
    ELSE span

\* impl SpanLike for Span
SpanIntoRange(v) == Range(Data(v).lo, Data(v).hi)

SpanIntoSpanData(v) == Data(v)

SpanFromSpanData(d) == SpanNew(d.lo, d.hi, d.ctxt, d.parent)

SpanWalkToCtxt(v, ctxt) ==
    LET other == Data(WalkChain(v, ctxt))
    IN  IF other.ctxt = ctxt THEN Some(Range(other.lo, other.hi)) ELSE None

\* impl SpanLike for SpanData
SpanDataIntoRange(v) == Range(v.lo, v.hi)

SpanDataIntoSpanData(v) == v

SpanDataFromSpanData(d) == d

SpanDataWalkToCtxt(v, ctxt) ==
    SpanWalkToCtxt(SpanNew(v.lo, v.hi, v.ctxt, v.parent), ctxt)

\* impl SpanLike for Range<BytePos>
RangeIntoRange(v) == v

RangeIntoSpanData(v) == SpanData(v.start, v.end, Root, None)

RangeFromSpanData(d) == Range(d.lo, d.hi)

RangeWalkToCtxt(v, ctxt) == IF ctxt = Root THEN Some(v) ELSE None

\* The implementations of SpanLike, and the call of each method on the
\* implementation named.
Impls == {"Span", "SpanData", "Range"}

IntoRange(impl, v) ==
    CASE impl = "Span"     -> SpanIntoRange(v)
      [] impl = "SpanData" -> SpanDataIntoRange(v)
      [] impl = "Range"    -> RangeIntoRange(v)

IntoSpanData(impl, v) ==
    CASE impl = "Span"     -> SpanIntoSpanData(v)
      [] impl = "SpanData" -> SpanDataIntoSpanData(v)
      [] impl = "Range"    -> RangeIntoSpanData(v)

FromSpanData(impl, d) ==
    CASE impl = "Span"     -> SpanFromSpanData(d)
      [] impl = "SpanData" -> SpanDataFromSpanData(d)
      [] impl = "Range"    -> RangeFromSpanData(d)

WalkToCtxt(impl, v, ctxt) ==
    CASE impl = "Span"     -> SpanWalkToCtxt(v, ctxt)
      [] impl = "SpanData" -> SpanDataWalkToCtxt(v, ctxt)
      [] impl = "Range"    -> RangeWalkToCtxt(v, ctxt)

\* walk_span_to_context
WalkSpanToContext(span, outer) ==
    LET outer_span == WalkChain(span, outer)
    IN  IF Data(outer_span).ctxt = outer THEN Some(outer_span) ELSE None

----------------------------------------------------------------------------
(* SpecHyg: macro expansions, and the SpanLike operations on the spans of  *)
(* every context.  `walk` holds the call that has just returned.            *)

\* The parent of a span: none, or the one item of the crate.
Parents == {None, Some("item")}

\* The contexts there are: the root and one for each expansion.
Ctxts == 0 .. Len(hyg)

\* Every span data over the positions and the contexts there are.  The
\* spans rustc makes have lo and hi in order, and only those are walked.
Spans ==
    {SpanData(lo, hi, ctxt, parent) :
        lo \in 0 .. MaxSpanPos, hi \in 0 .. MaxSpanPos,
        ctxt \in Ctxts, parent \in Parents}

\* A macro is expanded at a call site written in the context c: the
\* expansion makes the next context.
Expand(c) ==
    /\ walk = NoWalk
    /\ Len(hyg) < MaxExpns
    /\ hyg' = Append(hyg, SpanNew(MaxSpanPos + Len(hyg) + 1,
                                  MaxSpanPos + Len(hyg) + 2, c, None))
    /\ UNCHANGED <<sm, cur, call, walk>>

\* v.walk_to_ctxt(to), v the value of `impl` made from the span data d.
DoWalkToCtxt(impl, d, to) ==
    /\ walk = NoWalk
    /\ walk' = [op |-> "walk_to_ctxt", impl |-> impl, d |-> d, to |-> to,
                res |-> WalkToCtxt(impl, FromSpanData(impl, d), to)]
    /\ UNCHANGED <<sm, cur, call, hyg>>

\* walk_span_to_context(span, to), span made from the span data d.  The
\* result is held as the data of the span returned.
DoWalkSpanToContext(d, to) ==
    /\ walk = NoWalk
    /\ LET r == WalkSpanToContext(SpanFromSpanData(d), to)
       IN  walk' = [op |-> "walk_span_to_context", impl |-> "Span", d |-> d,
                    to |-> to,
                    res |-> IF r.some THEN Some(Data(r.val)) ELSE None]
    /\ UNCHANGED <<sm, cur, call, hyg>>

\* from_span_data(d), then into_span_data and into_range of the value.
DoRoundTrip(impl, d) ==
    /\ walk = NoWalk
    /\ walk' = [op |-> "round_trip", impl |-> impl, d |-> d,
                back |-> IntoSpanData(impl, FromSpanData(impl, d)),
                range |-> IntoRange(impl, FromSpanData(impl, d))]
    /\ UNCHANGED <<sm, cur, call, hyg>>

\* The caller takes the result and goes on.
Return ==
    /\ walk # NoWalk
    /\ walk' = NoWalk
    /\ UNCHANGED <<sm, cur, call, hyg>>

InitHyg ==
    /\ sm = SourceMapOf(<<>>, "AbsentErr")
    /\ cur = NoCursor
    /\ call = NoCall
    /\ hyg = NoHygiene
    /\ walk = NoWalk

NextHyg ==
    \/ \E c \in Ctxts : Expand(c)
    \/ \E impl \in Impls, d \in Spans, to \in Ctxts :
           d.lo <= d.hi /\ DoWalkToCtxt(impl, d, to)
    \/ \E d \in Spans, to \in Ctxts :
           d.lo <= d.hi /\ DoWalkSpanToContext(d, to)
    \/ \E impl \in Impls, d \in Spans : DoRoundTrip(impl, d)
    \/ Return

SpecHyg == InitHyg /\ [][NextHyg]_vars

----------------------------------------------------------------------------
(* reindent_multiline *)

RECURSIVE SplitLf(_)
\* s.split('\n'): the pieces of s between its line feeds.
SplitLf(s) ==
    IF \A i \in 1 .. Len(s) : s[i] # "\n" THEN <<s>>
    ELSE LET k == CHOOSE i \in 1 .. Len(s) :
                      s[i] = "\n" /\ \A j \in 1 .. i - 1 : s[j] # "\n"
         IN  <<SubSeq(s, 1, k - 1)>> \o SplitLf(SubSeq(s, k + 1, Len(s)))

\* str::lines: the lines of s without their line feeds; a last line that is
\* empty is no line.
Lines(s) ==
    LET pieces == SplitLf(s)
    IN  IF pieces[Len(pieces)] = <<>>
        THEN SubSeq(pieces, 1, Len(pieces) - 1)
        ELSE pieces

RECURSIVE Join(_)
\* [String]::join("\n")
Join(lines) ==
    IF lines = <<>> THEN <<>>
    ELSE IF Len(lines) = 1 THEN lines[1]
    ELSE lines[1] \o <<"\n">> \o Join(Tail(lines))

RECURSIVE Repeat(_, _)
\* str::repeat
Repeat(s, n) == IF n <= 0 THEN <<>> ELSE s \o Repeat(s, n - 1)

RECURSIVE LeadingRun(_, _)
\* l.char_indices().find(|&(_, x)| x != ch).unwrap_or((l.len(), ch)).0
LeadingRun(l, ch) ==
    IF l # <<>> /\ Head(l) = ch THEN 1 + LeadingRun(Tail(l), ch) ELSE 0

\* The least of a set of numbers, 0 for the empty set: min().unwrap_or(0)
MinOrZero(S) == IF S = {} THEN 0 ELSE CHOOSE x \in S : \A y \in S : x <= y

\* Option<usize>::unwrap_or(0)
UnwrapOrZero(indent) == IF indent.some THEN indent.val ELSE 0

\* reindent_multiline_inner
ReindentMultilineInner(s, ignore_first, indent, ch) ==
    LET lines == Lines(s)
        skip  == IF ignore_first THEN 1 ELSE 0
        x == MinOrZero({LeadingRun(lines[i], ch) :
                           i \in {j \in skip + 1 .. Len(lines) : lines[j] # <<>>}})
        n == UnwrapOrZero(indent)
    IN  Join([i \in 1 .. Len(lines) |->
                 IF (ignore_first /\ i = 1) \/ lines[i] = <<>> THEN lines[i]
                 ELSE IF x > n
                 THEN SubSeq(lines[i], x - n + 1, Len(lines[i]))
                 ELSE Repeat(<<" ">>, n - x) \o lines[i]])

\* reindent_multiline
ReindentMultiline(s, ignore_first, indent) ==
    LET s_space == ReindentMultilineInner(s, ignore_first, indent, " ")
        s_tab   == ReindentMultilineInner(s_space, ignore_first, indent, "\t")
    IN  ReindentMultilineInner(s_tab, ignore_first, indent, " ")

----------------------------------------------------------------------------
(* The lints: what each emits for the spans it is given.  A diagnostic is   *)
(* the span it is reported at, its suggestions in order and its help or     *)
(* note, if it has one; a lint that does not fire gives None.               *)

\* rustc_errors::Applicability
Applicabilities ==
    {"MachineApplicable", "MaybeIncorrect", "HasPlaceholders", "Unspecified"}

\* One span_suggestion: the span replaced, the new text, the applicability,
\* and the spans of the nodes the lint read to make the suggestion.
Suggestion(sp, text, app, from) ==
    [sp |-> sp, text |-> text, app |-> app, from |-> from]

\* span_lint_and_then, span_lint_and_sugg, span_lint_and_note
Diag(sp, suggs, help) == [sp |-> sp, suggs |-> suggs, help |-> help]

\* SpanExt::get_source_range, in a source map with no file left to load.
GetSourceRange(d) ==
    LET idx == LookupSourceFileIdx(d.lo)
    IN  NewCursor(EnsureSourcePresent(sm[idx], None), idx, d.lo, d.hi)

\* The span data of a span the lint builds with Span::new.
NewData(lo, hi, ctxt, parent) == Data(SpanNew(lo, hi, ctxt, parent))

\* The closure check_assign gives edit_range: the range of "=" and the
\* operator when the text at the range is "=", the operator, whitespace.
CheckAssignFn(src, start, end, op_str) ==
    LET text == StrGet(src, start, end)
        eq   == StripPrefix(text.val, <<"=">>)
        op   == StripPrefix(eq.val, op_str)
    IN  IF /\ text.some /\ eq.some /\ op.some
           /\ op.val # <<>> /\ IsWhitespace(Head(op.val))
        THEN Some(Range(start, start + 2))
        ELSE None

\* check_assign writing the second suggestion over the lint's span.
CheckAssignSameSpan(assign, rhs_ctxt, op_sp, op_str, external) ==
    LET r0 == GetSourceRange(op_sp)
        r1 == SetEndIfAfter(r0.val, assign.hi)
        r2 == EditRange(r1.cur, CheckAssignFn(FileText(r1.cur), r1.cur.start,
                                              r1.cur.end, op_str))
        lint_range == SourceRange(r2.cur)
        r3 == AddTrailingWhitespace(r2.cur)
        lint_sp == NewData(lint_range.start, lint_range.end, assign.ctxt,
                           assign.parent)
    IN  IF /\ rhs_ctxt = assign.ctxt /\ op_sp.ctxt = assign.ctxt
           /\ r0.some /\ r1.some /\ r2.some /\ r3.some /\ ~external
        THEN Some(Diag(lint_sp,
                 << Suggestion(lint_sp, op_str \o <<"=">>, "MaybeIncorrect",
                               {assign, op_sp}),
                    Suggestion(lint_sp, <<"=", " ">> \o op_str,
                               "MaybeIncorrect", {assign, op_sp}) >>,
                 None))
        ELSE None

\* check_assign (suspicious_assignment_formatting) for the assignment at
\* `assign` whose "=" is at op_sp and whose right side is the unary operator
\* op_str applied to an expression of the context rhs_ctxt.
CheckAssign(assign, rhs_ctxt, op_sp, op_str, external) ==
    LET r0 == GetSourceRange(op_sp)
        r1 == SetEndIfAfter(r0.val, assign.hi)
        r2 == EditRange(r1.cur, CheckAssignFn(FileText(r1.cur), r1.cur.start,
                                              r1.cur.end, op_str))
        lint_range == SourceRange(r2.cur)
        r3 == AddTrailingWhitespace(r2.cur)
        sep_range == SourceRange(r3.cur)
        lint_sp == NewData(lint_range.start, lint_range.end, assign.ctxt,
                           assign.parent)
    IN  IF /\ rhs_ctxt = assign.ctxt /\ op_sp.ctxt = assign.ctxt
           /\ r0.some /\ r1.some /\ r2.some /\ r3.some /\ ~external
        THEN Some(Diag(lint_sp,
                 << Suggestion(lint_sp, op_str \o <<"=">>, "MaybeIncorrect",
                               {assign, op_sp}),
                    Suggestion(NewData(sep_range.start, sep_range.end,
                                       assign.ctxt, assign.parent),
                               <<"=", " ">> \o op_str, "MaybeIncorrect",
                               {assign, op_sp}) >>,
                 None))
        ELSE None

\* The closure check_un_op gives edit_range.
CheckUnOpFn(src, start, end, bin_op_str, un_op_str) ==
    LET text == StrGet(src, start, end)
        bin  == StripPrefix(text.val, bin_op_str)
        un   == StripPrefix(bin.val, un_op_str)
    IN  IF /\ text.some /\ bin.some /\ un.some
           /\ un.val # <<>> /\ IsWhitespace(Head(un.val))
        THEN Some(Range(start, start + Len(bin_op_str) + Len(un_op_str)))
        ELSE None

\* check_un_op (suspicious_unary_op_formatting) for the binary expression of
\* the context bin_ctxt whose operator is at bin_op and whose right side, at
\* rhs, is the unary operator un_op_str applied to an expression.
CheckUnOp(bin_ctxt, bin_op, bin_op_str, rhs, un_op_str, external) ==
    LET r0 == GetSourceRange(bin_op)
        r1 == SetEndIfAfter(r0.val, rhs.hi)
        r2 == EditRange(r1.cur, CheckUnOpFn(FileText(r1.cur), r1.cur.start,
                                            r1.cur.end, bin_op_str, un_op_str))
        lint_range == SourceRange(r2.cur)
        r3 == AddTrailingWhitespace(r2.cur)
        sugg_range == SourceRange(r3.cur)
    IN  IF /\ bin_op.ctxt = bin_ctxt /\ rhs.ctxt = bin_op.ctxt
           /\ r0.some /\ r1.some /\ r2.some /\ r3.some /\ ~external
        THEN Some(Diag(NewData(lint_range.start, lint_range.end, bin_op.ctxt,
                               bin_op.parent),
                 << Suggestion(NewData(sugg_range.start, sugg_range.end,
                                       bin_op.ctxt, bin_op.parent),
                               bin_op_str \o <<" ">> \o un_op_str,
                               IF bin_op.ctxt = Root THEN "MachineApplicable"
                               ELSE "MaybeIncorrect",
                               {bin_op, rhs}) >>,
                 None))
        ELSE None

RECURSIVE TokenizeWithText(_)
\* tokenize_with_text: the kind and the text of each token of s.
TokenizeWithText(s) ==
    IF s = <<>> THEN <<>>
    ELSE LET t == FirstToken(s)
         IN  <<[kind |-> t.kind, text |-> SubSeq(s, 1, t.len)]>>
                 \o TokenizeWithText(SubSeq(s, t.len + 1, Len(s)))

\* text.bytes().filter(|&c| c == b'\n').count()
LfCount(text) == Cardinality({i \in 1 .. Len(text) : text[i] = "\n"})

RECURSIVE BeforeElse(_, _, _, _)
\* The first loop of check_else_formatting from the i-th token on: "true" or
\* "false" when it returns, or the state at its break.
BeforeElse(tokens, i, lf_count, skip_lf) ==
    IF i > Len(tokens) THEN [ret |-> "false"]
    ELSE LET t == tokens[i]
         IN  CASE t.kind = "Whitespace" ->
                    IF LfCount(t.text) = 0
                    THEN BeforeElse(tokens, i + 1, lf_count, skip_lf)
                    ELSE BeforeElse(tokens, i + 1,
                             lf_count + LfCount(t.text)
                                 - (IF skip_lf THEN 1 ELSE 0),
                             FALSE)
               [] t.kind = "LineComment" ->
                    BeforeElse(tokens, i + 1, lf_count, lf_count # 0)
               [] t.kind = "BlockComment" ->
                    LET lf == IF lf_count = 0
                              THEN (IF LfCount(t.text) > 0 THEN 1 ELSE 0)
                              ELSE lf_count
                    IN  BeforeElse(tokens, i + 1, lf, lf # 0)
               [] t.kind = "Ident" /\ t.text = <<"e", "l", "s", "e">> ->
                    IF skip_lf \/ lf_count > 1 THEN [ret |-> "true"]
                    ELSE [ret |-> "break", next |-> i + 1,
                          lf_count |-> lf_count]
               [] OTHER -> [ret |-> "false"]

RECURSIVE AfterElse(_, _, _, _, _)
\* The second loop of check_else_formatting and the expression after it.
AfterElse(tokens, i, lf_count, skip_lf, allow_lf) ==
    IF i > Len(tokens)
    THEN skip_lf \/ lf_count > (IF allow_lf THEN 1 ELSE 0)
    ELSE LET t == tokens[i]
         IN  CASE t.kind = "Whitespace" ->
                    IF LfCount(t.text) = 0
                    THEN AfterElse(tokens, i + 1, lf_count, skip_lf, allow_lf)
                    ELSE AfterElse(tokens, i + 1,
                             lf_count + LfCount(t.text)
                                 - (IF skip_lf THEN 1 ELSE 0),
                             FALSE, allow_lf)
               [] t.kind = "BlockComment" ->
                    AfterElse(tokens, i + 1, lf_count, lf_count # 0,
                              allow_lf \/ lf_count # 0)
               [] t.kind = "LineComment" -> TRUE
               [] OTHER -> FALSE

\* check_else_formatting whose second loop counts from the first loop's
\* line feeds.
CheckElseFormattingCarry(src, is_else_block) ==
    LET tokens == TokenizeWithText(src)
        first  == BeforeElse(tokens, 1, 0, FALSE)
    IN  IF first.ret = "break"
        THEN AfterElse(tokens, first.next, first.lf_count, FALSE,
                       is_else_block /\ first.lf_count # 0)
        ELSE first.ret = "true"

\* check_else_formatting
CheckElseFormatting(src, is_else_block) ==
    LET tokens == TokenizeWithText(src)
        first  == BeforeElse(tokens, 1, 0, FALSE)
    IN  IF first.ret = "break"
        THEN AfterElse(tokens, first.next, 0, FALSE,
                       is_else_block /\ first.lf_count # 0)
        ELSE first.ret = "true"

\* check_else (suspicious_else_formatting) for the `if` expression of the
\* context expr_ctxt whose then block is at then_ and whose else is at else_.
CheckElse(expr_ctxt, then_, else_, is_else_block, external) ==
    LET r0 == GetSourceRange(then_)
        r1 == SetRangeBetweenOther(r0.val, else_.lo, else_.hi)
        range == SourceRange(r1.cur)
    IN  IF /\ then_.ctxt = expr_ctxt /\ then_.ctxt = else_.ctxt
           /\ r0.some /\ r1.some
           /\ CurrentText(r1.cur).some
           /\ CheckElseFormatting(CurrentText(r1.cur).val, is_else_block)
           /\ ~external
        THEN Some(Diag(NewData(range.start, range.end, then_.ctxt,
                               then_.parent),
                       <<>>, Some("note")))
        ELSE None

\* BinOpKind::And | BinOpKind::Mul | BinOpKind::Sub | BinOpKind::BitAnd, as
\* BinOpKind::as_str writes them.
MissingCommaOps == {<<"&", "&">>, <<"*">>, <<"-">>, <<"&">>}

\* check_missing_comma (possible_missing_comma) for the binary expression at
\* e whose operator op_str is at op and whose left side is at lhs; neither
\* side is a binary expression itself.
CheckMissingComma(ctxt, e, op, op_str, lhs, external) ==
    LET r0  == GetSourceRange(op)
        r1  == SetEndIfAfter(r0.val, e.hi)
        src == StrGet(FileText(r1.cur), 0, r1.cur.end)
        pre == StrGet(src.val, 0, r1.cur.start)
        rest == StripPrefix(SubSeq(src.val, r1.cur.start + 1, Len(src.val)),
                            op_str)
        lhs_sp == WalkSpanToContext(SpanFromSpanData(lhs), ctxt)
    IN  IF /\ e.ctxt = ctxt /\ op_str \in MissingCommaOps /\ op.ctxt = e.ctxt
           /\ r0.some /\ r1.some /\ src.some /\ pre.some /\ rest.some
           /\ rest.val # <<>> /\ ~IsWhitespace(Head(rest.val))
           /\ Head(rest.val) # "/"
           /\ pre.val # <<>> /\ IsWhitespace(pre.val[Len(pre.val)])
           /\ lhs_sp.some /\ ~external
        THEN Some(Diag(op,
                 << Suggestion(NewData(Data(lhs_sp.val).hi, Data(lhs_sp.val).hi,
                                       Data(lhs_sp.val).ctxt,
                                       Data(lhs_sp.val).parent),
                               <<",">>, "MaybeIncorrect", {e, op, lhs}),
                    Suggestion(NewData(op.hi, op.hi, op.ctxt, op.parent),
                               <<" ">>, "MaybeIncorrect", {e, op, lhs}) >>,
                 None))
        ELSE None

\* check_missing_else (possible_missing_else) for two statements in a row of
\* a block of the context ctxt: an `if` expression at first and an `if` or a
\* block at second.
CheckMissingElse(ctxt, first, second) ==
    LET r0 == GetSourceRange(first)
        r1 == SetRangeBetweenOther(r0.val, second.lo, second.hi)
        range == SourceRange(r1.cur)
        sp == NewData(range.start, range.end, first.ctxt, first.parent)
    IN  IF /\ first.ctxt = ctxt /\ second.ctxt = ctxt
           /\ r0.some
           /\ CurrentText(r0.val).some
           /\ StripPrefix(CurrentText(r0.val).val, <<"i", "f">>).some
           /\ StripSuffix(CurrentText(r0.val).val, <<"}">>).some
           /\ r1.some
           /\ CurrentText(r1.cur).some
           /\ \A i \in 1 .. Len(CurrentText(r1.cur).val) :
                  /\ CurrentText(r1.cur).val[i] # "\n"
                  /\ IsWhitespace(CurrentText(r1.cur).val[i])
        THEN Some(Diag(sp,
                 << Suggestion(sp, <<" ", "e", "l", "s", "e", " ">>,
                               "MaybeIncorrect", {first, second}),
                    Suggestion(sp, <<"\n">> \o GetLineIndent(r1.cur),
                               "MaybeIncorrect", {first, second}) >>,
                 None))
        ELSE None

\* Span::with_lo, Span::with_hi, Span::shrink_to_hi
WithLo(span, lo) ==
    SpanNew(lo, Data(span).hi, Data(span).ctxt, Data(span).parent)

WithHi(span, hi) ==
    SpanNew(Data(span).lo, hi, Data(span).ctxt, Data(span).parent)

ShrinkToHi(span) == WithLo(span, Data(span).hi)

\* SpanExt::map_range for the span data d, r being what the closure made of
\* the cursor on d.
MapRange(d, r) ==
    IF r.some /\ AsText(r.cur).some
    THEN Some(Data(SpanFromSpanData(
             [d EXCEPT !.lo = SourceRange(r.cur).start,
                       !.hi = SourceRange(r.cur).end])))
    ELSE None

\* The closure NeedlessElse gives edit_range.
NeedlessElseFn(src, start, end) ==
    LET text    == StrGet(src, start, end)
        trimmed == SubSeq(text.val, LeadingWs(text.val) + 1, Len(text.val))
        kw      == StripPrefix(trimmed, <<"e", "l", "s", "e">>)
        open    == StripPrefix(SubSeq(kw.val, LeadingWs(kw.val) + 1,
                                      Len(kw.val)), <<"{">>)
        inner   == StripSuffix(open.val, <<"}">>)
    IN  IF /\ text.some /\ kw.some /\ open.some /\ inner.some
           /\ \A i \in 1 .. Len(inner.val) : IsWhitespace(inner.val[i])
        THEN Some(Range(start + (Len(text.val) - Len(trimmed)), end))
        ELSE None

\* NeedlessElse::check_expr for the `if` expression at expr whose then block
\* is at then_block and whose else is a block at else_clause; stmts_empty
\* tells whether that block has no statement.
NeedlessElse(expr, then_block, else_clause, stmts_empty) ==
    LET r0 == GetSourceRange(else_clause)
        r1 == SetStartIfBefore(r0.val, then_block.hi)
        r2 == EditRange(r1.cur, NeedlessElseFn(FileText(r1.cur), r1.cur.start,
                                               r1.cur.end))
        lint_sp == MapRange(else_clause, r2)
    IN  IF /\ then_block.ctxt = Root /\ expr.ctxt = Root
           /\ else_clause.ctxt = Root /\ stmts_empty
           /\ r0.some /\ r1.some /\ lint_sp.some
        THEN Some(Diag(lint_sp.val,
                 << Suggestion(lint_sp.val, <<>>, "MachineApplicable",
                               {expr, then_block, else_clause}) >>,
                 None))
        ELSE None

\* ManualAssertEq::check_expr for the expression at expr, the first node of
\* the expansion of the macro called at macro_call.  `shape` says that the
\* macro is assert or debug_assert outside a const context and that its
\* condition, at cond, compares the operands at lhs and rhs, both Debug,
\* with ==; name_len is the length of the macro's name.  The two parts of
\* the multipart suggestion are held as two suggestions.
ManualAssertEq(shape, macro_call, expr, cond, lhs, rhs, name_len) ==
    LET ctxt     == cond.ctxt
        lhs_span == WalkSpanToContext(SpanFromSpanData(lhs), ctxt)
        rhs_span == WalkSpanToContext(SpanFromSpanData(rhs), ctxt)
        macro_name_span == WithHi(SpanFromSpanData(macro_call),
                                  macro_call.lo + name_len)
        eq_span  == WithHi(WithLo(SpanFromSpanData(cond),
                                  Data(lhs_span.val).hi),
                           Data(rhs_span.val).lo)
    IN  IF shape /\ cond.ctxt = Root
        THEN IF lhs_span.some /\ rhs_span.some
             THEN Some(Diag(macro_call,
                      << Suggestion(Data(ShrinkToHi(macro_name_span)),
                                    <<"_", "e", "q">>, "MachineApplicable",
                                    {macro_call}),
                         Suggestion(Data(eq_span), <<",", " ">>,
                                    "MachineApplicable",
                                    {cond, lhs, rhs}) >>,
                      None))
             ELSE Some(Diag(macro_call, <<>>, Some(expr)))
        ELSE None

\* IfsAsLogicalOps::check_expr for `if cond { if_expr } else { false }` at e.
\* `shape` says that the expression has this form, with no comment in its
\* blocks, and that if_expr neither diverges nor is a bool literal.  The
\* literal of the else block is the whole of else_expr.
IfsAsLogicalOps(shape, e, cond, if_block, if_expr, else_block, else_expr, external) ==
    LET ctxt == e.ctxt
        lit  == else_expr
    IN  IF /\ shape
           /\ ctxt = if_block.ctxt /\ ctxt = else_block.ctxt
           /\ ctxt = else_expr.ctxt /\ ctxt = lit.ctxt
           /\ ~external
        THEN Some(Diag(e,
                 << Suggestion(e, <<"&", "&">>,
                               IF ctxt = Root THEN "MachineApplicable"
                               ELSE "MaybeIncorrect",
                               {e, cond, if_expr}) >>,
                 None))
        ELSE None

\* write::empty_string::check without the look at the byte after the
\* format string.
PrintlnEmptyStringLiteralOnly(format_args, macro_call, template_is_lf) ==
    IF template_is_lf
    THEN Some(Diag(macro_call,
             << Suggestion(format_args, <<>>, "MachineApplicable",
                           {format_args}) >>,
             None))
    ELSE None

\* write::empty_string::check for println!: format_args is the span of the
\* format string and template_is_lf says that the template is one "\n".
PrintlnEmptyString(format_args, macro_call, template_is_lf) ==
    LET forward == [format_args EXCEPT !.hi = format_args.hi + 1]
        r0      == GetSourceRange(forward)
        comma   == /\ r0.some /\ CurrentText(r0.val).some
                   /\ StripSuffix(CurrentText(r0.val).val, <<",">>).some
        span    == IF comma THEN forward ELSE format_args
    IN  IF template_is_lf
        THEN Some(Diag(macro_call,
                 << Suggestion(span, <<>>, "MachineApplicable",
                               {format_args}) >>,
                 None))
        ELSE None

----------------------------------------------------------------------------
(* SpecLint: the lints on one file that holds the pattern of each, its      *)
(* nodes in every context there is.  `walk` holds what the lint just        *)
(* called emitted.                                                          *)

\* The file of SpecLint:  =- -! a,if} {}else\n{}
LintText ==
    << "=", "-", " ", "-", "!", " ", "a", ",", "i", "f", "}", " ",
       "{", "}", "e", "l", "s", "e", "\n", "{", "}" >>

\* The span data of the bytes lo..hi of the local file, in the context ctxt.
At(lo, hi, ctxt) ==
    SpanData(sm[2].start_pos + lo, sm[2].start_pos + hi, ctxt, None)

\* The unary operators of the files.
UnOps == {<<"-">>, <<"!">>}

\* The lints of the formatting pass.
FormattingLints ==
    {"suspicious_assignment_formatting", "suspicious_unary_op_formatting",
     "suspicious_else_formatting", "possible_missing_else",
     "possible_missing_comma"}

\* What a formatting lint emitted: ctxt is the context of the spans it
\* edits and external says whether that context is of an external macro.
FmtCall(lint, ctxt, external, in, diag) ==
    [op |-> "lint", lint |-> lint, ctxt |-> ctxt, external |-> external,
     in |-> in, diag |-> diag]

\* What another lint emitted.
LintCall(lint, in, diag) ==
    [op |-> "lint", lint |-> lint, in |-> in, diag |-> diag]

\* The formatting pass reaches an assignment whose "=" is the byte at p.
DoCheckAssign(p, assign_ctxt, rhs_ctxt, op_ctxt, op_str, external) ==
    /\ walk = NoWalk
    /\ assign_ctxt = Root => ~external
    /\ LET assign == At(0, sm[2].source_len, assign_ctxt)
           op_sp  == At(p, p + 1, op_ctxt)
       IN  walk' = FmtCall("suspicious_assignment_formatting", assign_ctxt,
                           external,
                           [assign |-> assign, op_sp |-> op_sp,
                            rhs_ctxt |-> rhs_ctxt, op_str |-> op_str],
                           CheckAssign(assign, rhs_ctxt, op_sp, op_str,
                                       external))
    /\ UNCHANGED <<sm, cur, call, hyg>>

\* The formatting pass reaches a binary expression whose operator "-" is the
\* byte at p and whose right side is the rest of the file.
DoCheckUnOp(p, bin_ctxt, op_ctxt, rhs_ctxt, un_op_str, external) ==
    /\ walk = NoWalk
    /\ op_ctxt = Root => ~external
    /\ LET bin_op == At(p, p + 1, op_ctxt)
           rhs    == At(p + 1, sm[2].source_len, rhs_ctxt)
       IN  walk' = FmtCall("suspicious_unary_op_formatting", op_ctxt,
                           external,
                           [bin_ctxt |-> bin_ctxt, bin_op |-> bin_op,
                            rhs |-> rhs, un_op_str |-> un_op_str],
                           CheckUnOp(bin_ctxt, bin_op, <<"-">>, rhs,
                                     un_op_str, external))
    /\ UNCHANGED <<sm, cur, call, hyg>>

\* The formatting pass reaches an `if` with an else: the then block ends at
\* p and the else, a block or an `if`, starts at q.
DoCheckElse(p, q, expr_ctxt, then_ctxt, else_ctxt, is_else_block, external) ==
    /\ walk = NoWalk
    /\ then_ctxt = Root => ~external
    /\ LET then_ == At(0, p, then_ctxt)
           else_ == At(q, sm[2].source_len, else_ctxt)
       IN  walk' = FmtCall("suspicious_else_formatting", then_ctxt, external,
                           [expr_ctxt |-> expr_ctxt, then_ |-> then_,
                            else_ |-> else_,
                            is_else_block |-> is_else_block],
                           CheckElse(expr_ctxt, then_, else_, is_else_block,
                                     external))
    /\ UNCHANGED <<sm, cur, call, hyg>>

\* The formatting pass reaches an argument that is a binary expression
\* whose operator "-" is the byte at p.
DoCheckMissingComma(p, ctxt, e_ctxt, op_ctxt, lhs_ctxt, external) ==
    /\ walk = NoWalk
    /\ ctxt = Root => ~external
    /\ LET e   == At(0, sm[2].source_len, e_ctxt)
           op  == At(p, p + 1, op_ctxt)
           lhs == At(0, p, lhs_ctxt)
       IN  walk' = FmtCall("possible_missing_comma", ctxt, external,
                           [e |-> e, op |-> op, lhs |-> lhs],
                           CheckMissingComma(ctxt, e, op, <<"-">>, lhs,
                                             external))
    /\ UNCHANGED <<sm, cur, call, hyg>>

\* The formatting pass reaches two statements in a row of a block of the
\* context ctxt: an `if` expression at lo..p and an `if` or a block that
\* starts at q.
DoCheckMissingElse(lo, p, q, ctxt, first_ctxt, second_ctxt, external) ==
    /\ walk = NoWalk
    /\ ctxt = Root => ~external
    /\ LET first  == At(lo, p, first_ctxt)
           second == At(q, sm[2].source_len, second_ctxt)
       IN  walk' = FmtCall("possible_missing_else", ctxt, external,
                           [first |-> first, second |-> second],
                           CheckMissingElse(ctxt, first, second))
    /\ UNCHANGED <<sm, cur, call, hyg>>

\* The lint pass reaches the first node, at expr, of an expansion of assert!
\* written at the root: its call is where walking out of every expansion
\* ends.
DoManualAssertEq(shape, expr_ctxt, cond_ctxt, lhs_ctxt, rhs_ctxt, name_len) ==
    /\ walk = NoWalk
    /\ expr_ctxt # Root
    /\ LET expr == At(0, 1, expr_ctxt)
           cond == At(0, 1, cond_ctxt)
           lhs  == At(0, 0, lhs_ctxt)
           rhs  == At(1, 1, rhs_ctxt)
           macro_call == Data(WalkChain(SpanFromSpanData(expr), Root))
       IN  /\ name_len <= macro_call.hi - macro_call.lo
           /\ walk' = LintCall("manual_assert_eq",
                               [expr |-> expr, cond |-> cond, lhs |-> lhs,
                                rhs |-> rhs],
                               ManualAssertEq(shape, macro_call, expr, cond,
                                              lhs, rhs, name_len))
    /\ UNCHANGED <<sm, cur, call, hyg>>

\* The lint pass reaches an `if` expression with an else.
DoIfsAsLogicalOps(shape, e_ctxt, cond_ctxt, if_block_ctxt, if_expr_ctxt, else_block_ctxt, else_expr_ctxt, external) ==
    /\ walk = NoWalk
    /\ e_ctxt = Root => ~external
    /\ LET e          == At(0, 5, e_ctxt)
           cond       == At(0, 1, cond_ctxt)
           if_block   == At(1, 3, if_block_ctxt)
           if_expr    == At(2, 2, if_expr_ctxt)
           else_block == At(3, 5, else_block_ctxt)
           else_expr  == At(4, 4, else_expr_ctxt)
       IN  walk' = LintCall("ifs_as_logical_ops",
                            [e |-> e, cond |-> cond, if_expr |-> if_expr],
                            IfsAsLogicalOps(shape, e, cond, if_block, if_expr,
                                            else_block, else_expr, external))
    /\ UNCHANGED <<sm, cur, call, hyg>>

\* The lint pass reaches an `if` whose then block ends at p and whose else
\* is a block that starts at q.
DoNeedlessElse(p, q, expr_ctxt, then_ctxt, else_ctxt, stmts_empty) ==
    /\ walk = NoWalk
    /\ LET expr        == At(0, sm[2].source_len, expr_ctxt)
           then_block  == At(0, p, then_ctxt)
           else_clause == At(q, sm[2].source_len, else_ctxt)
       IN  walk' = LintCall("needless_else",
                            [expr |-> expr, then_block |-> then_block,
                             else_clause |-> else_clause],
                            NeedlessElse(expr, then_block, else_clause,
                                         stmts_empty))
    /\ UNCHANGED <<sm, cur, call, hyg>>

\* The lint pass reaches a println! that spans the file and whose format
\* string, written in the file, is lo..hi.
DoPrintlnEmptyString(lo, hi, template_is_lf) ==
    /\ walk = NoWalk
    /\ LET format_args == At(lo, hi, Root)
           macro_call  == At(0, sm[2].source_len, Root)
       IN  walk' = LintCall("println_empty_string",
                            [format_args |-> format_args],
                            PrintlnEmptyString(format_args, macro_call,
                                               template_is_lf))
    /\ UNCHANGED <<sm, cur, call, hyg>>

InitLint ==
    /\ sm = SourceMapOf(LintText, "AbsentErr")
    /\ cur = NoCursor
    /\ call = NoCall
    /\ hyg = NoHygiene
    /\ walk = NoWalk

NextLint ==
    \/ \E c \in Ctxts : Expand(c)
    \/ Return
    \/ \E a \in Ctxts, r \in Ctxts, o \in Ctxts, external \in BOOLEAN :
           DoCheckAssign(0, a, r, o, <<"-">>, external)
    \/ \E b \in Ctxts, o \in Ctxts, r \in Ctxts, external \in BOOLEAN :
           DoCheckUnOp(3, b, o, r, <<"!">>, external)
    \/ \E x \in Ctxts, t \in Ctxts, e \in Ctxts, external \in BOOLEAN :
           DoCheckElse(14, 19, x, t, e, TRUE, external)
    \/ \E c \in Ctxts, e \in Ctxts, o \in Ctxts, l \in Ctxts,
          external \in BOOLEAN :
           DoCheckMissingComma(3, c, e, o, l, external)
    \/ \E c \in Ctxts, f \in Ctxts, s \in Ctxts, external \in BOOLEAN :
           DoCheckMissingElse(8, 11, 12, c, f, s, external)
    \/ \E shape \in BOOLEAN, x \in Ctxts, c \in Ctxts, l \in Ctxts,
          r \in Ctxts, n \in 0 .. 1 :
           DoManualAssertEq(shape, x, c, l, r, n)
    \/ \E shape \in BOOLEAN, e \in Ctxts, c \in Ctxts, ib \in Ctxts,
          ie \in Ctxts, eb \in Ctxts, ee \in Ctxts, external \in BOOLEAN :
           DoIfsAsLogicalOps(shape, e, c, ib, ie, eb, ee, external)
    \/ \E x \in Ctxts, t \in Ctxts, e \in Ctxts, stmts_empty \in BOOLEAN :
           DoNeedlessElse(14, 19, x, t, e, stmts_empty)
    \/ \E template_is_lf \in BOOLEAN :
           DoPrintlnEmptyString(6, 7, template_is_lf)

SpecLint == InitLint /\ [][NextLint]_vars

----------------------------------------------------------------------------
(* SpecSnip: snippet_with_applicability on every span of the source map of *)
(* Spec, in the root context and in the contexts of macros called there.    *)

\* SourceMap::span_to_snippet, as Option: the text between lo and hi when
\* both lie in one file whose source is there, in order, within the file
\* and on character boundaries.
SpanToSnippet(d) ==
    LET idx   == LookupSourceFileIdx(d.lo)
        file  == EnsureSourcePresent(sm[idx], None)
        start == d.lo - file.start_pos
        end   == d.hi - file.start_pos
    IN  IF /\ LookupSourceFileIdx(d.hi) = idx
           /\ start <= end /\ end <= file.source_len
           /\ SourceTextNew(file).some
        THEN StrGet(SourceTextNew(file).val, start, end)
        ELSE None

\* snippet_opt
SnippetOpt(span) == SpanToSnippet(Data(span))

\* snippet_with_applicability_sm without the test for Unspecified.
SnippetWithApplicabilityAlways(span, default, applicability) ==
    LET at_macro == IF FromExpansion(span) THEN "MaybeIncorrect"
                    ELSE applicability
        snip     == SnippetOpt(span)
    IN  IF snip.some
        THEN [text |-> snip.val, applicability |-> at_macro]
        ELSE [text |-> default,
              applicability |-> IF at_macro = "MachineApplicable"
                                THEN "HasPlaceholders" ELSE at_macro]

\* snippet_with_applicability: the text returned and the applicability
\* left in the caller's variable.
SnippetWithApplicability(span, default, applicability) ==
    LET at_macro == IF applicability # "Unspecified" /\ FromExpansion(span)
                    THEN "MaybeIncorrect" ELSE applicability
        snip     == SnippetOpt(span)
    IN  IF snip.some
        THEN [text |-> snip.val, applicability |-> at_macro]
        ELSE [text |-> default,
              applicability |-> IF at_macro = "MachineApplicable"
                                THEN "HasPlaceholders" ELSE at_macro]

\* The default text of the callers.
DefaultText == <<"_">>

\* A lint asks for the snippet of the span d with its applicability at app.
DoSnippetWithApplicability(d, app) ==
    /\ walk = NoWalk
    /\ LET r == SnippetWithApplicability(SpanFromSpanData(d), DefaultText, app)
       IN  walk' = [op |-> "snippet", d |-> d, app |-> app,
                    text |-> r.text, applicability |-> r.applicability]
    /\ UNCHANGED <<sm, cur, call, hyg>>

NextSnip ==
    \/ Expand(Root)
    \/ Return
    \/ \E lo \in Positions, hi \in Positions, ctxt \in Ctxts,
          app \in Applicabilities :
           lo <= hi /\ DoSnippetWithApplicability(SpanData(lo, hi, ctxt, None), app)

SpecSnip == Init /\ [][NextSnip]_vars

----------------------------------------------------------------------------
(* SpecAssign: check_assign on every file of "=", the unary operators and  *)
(* whitespace, the "=" of the assignment at every byte, the assignment in  *)
(* the root context or in the context of a macro called there.              *)

\* The characters of the files of SpecAssign.
AssignAlphabet == {<<"=">>, <<"-">>, <<"!">>, <<" ">>}

InitAssign ==
    /\ sm \in {SourceMapOf(t, "AbsentErr") :
                  t \in Strings(AssignAlphabet, MaxWsLen)}
    /\ cur = NoCursor
    /\ call = NoCall
    /\ hyg = NoHygiene
    /\ walk = NoWalk

NextAssign ==
    \/ Expand(Root)
    \/ Return
    \/ \E p \in 0 .. sm[2].source_len - 1, c \in Ctxts, op_str \in UnOps :
           DoCheckAssign(p, c, c, c, op_str, FALSE)

SpecAssign == InitAssign /\ [][NextAssign]_vars

----------------------------------------------------------------------------
(* SpecGap: check_missing_else and check_else on every file made of an     *)
(* `if` expression that ends in "}", a gap of spaces, line feeds, `else`   *)
(* and block comments, and the start of a block or of an `if`; the file    *)
(* starts at the `if` or at a space before it.                              *)

\* The pieces of the gaps of SpecGap.
GapAlphabet ==
    {<<" ">>, <<"\n">>, <<"e", "l", "s", "e">>, <<"/", "*", "*", "/">>}

\* The files of SpecGap.
GapTexts ==
    {indent \o <<"i", "f", "}">> \o gap \o second :
        indent \in {<<>>, <<" ">>},
        gap \in Strings(GapAlphabet, MaxWsLen),
        second \in {<<"{">>, <<"i", "f">>}}

\* Where the first `if` starts, where the gap ends, and whether a block
\* follows the gap.
FirstLo == LeadingWs(sm[2].src.val)

SecondIsBlock == sm[2].src.val[sm[2].source_len] = "{"

SecondLo == sm[2].source_len - (IF SecondIsBlock THEN 1 ELSE 2)

InitGap ==
    /\ sm \in {SourceMapOf(t, "AbsentErr") : t \in GapTexts}
    /\ cur = NoCursor
    /\ call = NoCall
    /\ hyg = NoHygiene
    /\ walk = NoWalk

NextGap ==
    \/ Expand(Root)
    \/ Return
    \/ \E c \in Ctxts :
           DoCheckMissingElse(FirstLo, FirstLo + 3, SecondLo, c, c, c, FALSE)
    \/ \E c \in Ctxts :
           DoCheckElse(FirstLo + 3, SecondLo, c, c, c, SecondIsBlock, FALSE)

SpecGap == InitGap /\ [][NextGap]_vars

----------------------------------------------------------------------------
(* SpecRange: set_range with any range, with and without debug             *)
(* assertions, and the accessors of the text on the cursor it leaves.       *)

\* The positions a caller may give set_range, relative to the file: those
\* of the file, one past it, and u32::MAX (held as -1).
RelativePositions == -1 .. sm[2].source_len + 1

\* set_range(start..end) on the live cursor, in a build with debug
\* assertions (debug) or without: the call panics, res FALSE, or stores the
\* range and returns.
DoSetRange(start, end, debug) ==
    /\ call = NoCall
    /\ cur.file # 0
    /\ IF debug /\ DbgCheckRangeFails(cur, start, end)
       THEN /\ cur' = NoCursor
            /\ call' = Call("set_range", start, end, <<>>, FALSE)
                            @@ [debug |-> debug]
       ELSE /\ cur' = SetRange(cur, start, end)
            /\ call' = Call("set_range", start, end, <<>>, TRUE)
                            @@ [debug |-> debug]
    /\ UNCHANGED <<sm, hyg, walk>>

\* current_text on the live cursor.
DoCurrentText ==
    /\ call = NoCall
    /\ cur.file # 0
    /\ call' = [Call("current_text", 0, 0, <<>>, CurrentText(cur).some)
                    EXCEPT !.out = IF CurrentText(cur).some
                                   THEN CurrentText(cur).val ELSE <<>>]
    /\ UNCHANGED <<sm, cur, hyg, walk>>

\* as_text on the live cursor.
DoAsText ==
    /\ call = NoCall
    /\ cur.file # 0
    /\ call' = [Call("as_text", 0, 0, <<>>, AsText(cur).some)
                    EXCEPT !.out = IF AsText(cur).some
                                   THEN AsText(cur).val ELSE <<>>]
    /\ UNCHANGED <<sm, cur, hyg, walk>>

\* into_text, which takes the cursor.
DoIntoText ==
    /\ call = NoCall
    /\ cur.file # 0
    /\ call' = [Call("into_text", 0, 0, <<>>, AsText(cur).some)
                    EXCEPT !.out = IF AsText(cur).some
                                   THEN AsText(cur).val ELSE <<>>]
    /\ cur' = NoCursor
    /\ UNCHANGED <<sm, hyg, walk>>

\* span.map_range(cx, |r| Some(r.set_range(start..end))) for the span
\* lo..hi, without debug assertions.
DoMapRange(lo, hi, start, end) ==
    /\ call = NoCall
    /\ cur = NoCursor
    /\ LET d  == SpanData(lo, hi, Root, None)
           r0 == GetSourceRange(d)
       IN  call' = Call("map_range", start, end, <<>>,
                        /\ r0.some
                        /\ MapRange(d, Ret(TRUE, SetRange(r0.val, start, end))).some)
    /\ UNCHANGED <<sm, cur, hyg, walk>>

NextRange ==
    \/ NewValid
    \/ Chain
    \/ Drop
    \/ \E start \in RelativePositions, end \in RelativePositions,
          debug \in BOOLEAN : DoSetRange(start, end, debug)
    \/ DoCurrentText
    \/ DoAsText
    \/ DoIntoText
    \/ \E lo \in BoundariesOf(2), hi \in BoundariesOf(2),
          start \in RelativePositions, end \in RelativePositions :
           lo <= hi /\ DoMapRange(lo, hi, start, end)

SpecRange == Init /\ [][NextRange]_vars

----------------------------------------------------------------------------
(* SpecText: several callers of SourceText::new on one file, their steps    *)
(* interleaved.  The steps of ensure_source_file_source_present are those   *)
(* of rustc's SourceFile::add_external_src on the FreezeLock of              *)
(* external_src: is_frozen, the loader, try_write, the store, freeze, read. *)

\* The callers of SourceText::new.
MaxCallers == 2

Callers == 1 .. MaxCallers

\* A caller outside SourceText::new.
IdleCaller == [pc |-> "idle", src |-> None, late |-> FALSE, ret |-> None]

\* FreezeLock::try_write under the write lock: a guard unless the lock is
\* frozen, whatever it is.
TryWriteAlways(frozen) == TRUE

\* FreezeLock::try_write under the write lock: a guard unless the lock is
\* frozen.
TryWrite(frozen) == ~frozen

\* The body of SourceText::new after ensure_source_file_source_present
\* returned true: the text of file.src, or of external_src.get(), which is
\* None on a lock that is not frozen.
SourceTextNewGet(file, frozen) ==
    IF file.src.some THEN Some(file.src.val)
    ELSE IF frozen /\ file.external = "Present" THEN Some(file.ext_text)
    ELSE None

\* The step of caller p to the program counter pc.
Goto(p, pc) == [call EXCEPT !.callers[p].pc = pc]

\* Caller p calls SourceText::new(sm, file).  late: the call begins after
\* some call returned a text.
TextNew(p) ==
    /\ call.callers[p].pc = "idle"
    /\ call' = [call EXCEPT !.callers[p] =
                    [pc |-> "is_frozen", src |-> None,
                     late |-> call.returned # {}, ret |-> None]]
    /\ UNCHANGED <<sm, cur, hyg, walk>>

\* add_external_src: if !self.external_src.is_frozen()
TextIsFrozen(p) ==
    /\ call.callers[p].pc = "is_frozen"
    /\ call' = Goto(p, IF call.frozen THEN "read" ELSE "get_src")
    /\ UNCHANGED <<sm, cur, hyg, walk>>

\* add_external_src: let src = get_src(), the loader, which reads the file
\* and yields its text or None.
TextGetSrc(p, loaded) ==
    /\ call.callers[p].pc = "get_src"
    /\ call' = [call EXCEPT !.callers[p].pc = "try_write",
                            !.callers[p].src = loaded,
                            !.loads = @ + 1,
                            !.reloaded = @ \/ call.callers[p].late]
    /\ UNCHANGED <<sm, cur, hyg, walk>>

\* add_external_src: self.external_src.try_write().map(..), which takes the
\* write lock and, unless the lock is frozen, stores what the loader
\* yielded.
TextTryWrite(p) ==
    /\ call.callers[p].pc = "try_write"
    /\ call.lock = 0
    /\ IF TryWrite(call.frozen)
       THEN /\ sm' = [sm EXCEPT ![call.file] =
                         EnsureSourcePresent(sm[call.file], call.callers[p].src)]
            /\ call' = [call EXCEPT !.callers[p].pc = "freeze",
                                    !.lock = p,
                                    !.stores = @ + 1]
       ELSE /\ call' = Goto(p, "read")
            /\ UNCHANGED sm
    /\ UNCHANGED <<cur, hyg, walk>>

\* add_external_src: FreezeWriteGuard::freeze(external_src), after which
\* the guard is dropped.
TextFreeze(p) ==
    /\ call.callers[p].pc = "freeze"
    /\ call.lock = p
    /\ call' = [call EXCEPT !.callers[p].pc = "read",
                            !.frozen = TRUE,
                            !.lock = 0]
    /\ UNCHANGED <<sm, cur, hyg, walk>>

\* add_external_src: self.src.is_some() ||
\* self.external_src.read().get_source().is_some(), under the read lock;
\* SourceText::new returns None when it is false.
TextRead(p) ==
    /\ call.callers[p].pc = "read"
    /\ call.lock = 0
    /\ call' = Goto(p, IF sm[call.file].src.some
                          \/ sm[call.file].external = "Present"
                       THEN "get" ELSE "done")
    /\ UNCHANGED <<sm, cur, hyg, walk>>

\* SourceText::new: the text the handle points to.
TextGet(p) ==
    /\ call.callers[p].pc = "get"
    /\ LET text == SourceTextNewGet(sm[call.file], call.frozen)
       IN  call' = [call EXCEPT !.callers[p].pc = "done",
                               !.callers[p].ret = text,
                               !.returned = IF text.some
                                            THEN @ \cup {text.val} ELSE @]
    /\ UNCHANGED <<sm, cur, hyg, walk>>

\* The caller drops what SourceText::new returned.
TextDrop(p) ==
    /\ call.callers[p].pc = "done"
    /\ call' = [call EXCEPT !.callers[p] = IdleCaller]
    /\ UNCHANGED <<sm, cur, hyg, walk>>

\* The file is a foreign file whose source is not loaded yet, loaded, or
\* failed to load, or the local file; the lock of a local file and of a
\* file whose load was attempted is frozen.
InitText ==
    /\ sm \in {SourceMapOf(t, external) :
                 t \in Strings(Alphabet, MaxLen),
                 external \in {"AbsentOk", "Present", "AbsentErr"}}
    /\ cur = NoCursor
    /\ \E file \in {1, 2} :
           call = [op |-> "get_text", file |-> file,
                   frozen |-> sm[file].external # "AbsentOk",
                   lock |-> 0, loads |-> 0, stores |-> 0,
                   returned |-> {}, reloaded |-> FALSE,
                   callers |-> [p \in Callers |-> IdleCaller]]
    /\ hyg = NoHygiene
    /\ walk = NoWalk

NextText ==
    \/ \E p \in Callers : TextNew(p)
    \/ \E p \in Callers : TextIsFrozen(p)
    \/ \E p \in Callers, loaded \in {None, Some(ForeignText)} :
           TextGetSrc(p, loaded)
    \/ \E p \in Callers : TextTryWrite(p)
    \/ \E p \in Callers : TextFreeze(p)
    \/ \E p \in Callers : TextRead(p)
    \/ \E p \in Callers : TextGet(p)
    \/ \E p \in Callers : TextDrop(p)

SpecText == InitText /\ [][NextText]_vars

----------------------------------------------------------------------------
(* SpecComma: check_missing_comma on every file made of an operand, a gap  *)
(* of spaces and line feeds, a binary operator and what follows it up to   *)
(* the second operand.                                                      *)

\* The binary operators of the files of SpecComma.
BinOps == {<<"&", "&">>, <<"-">>, <<"+">>}

\* What stands between the operator and the end of the second operand.
AfterOps == {<<"a">>, <<" ", "a">>, <<"/", "*", "*", "/", "a">>}

\* The files of SpecComma.
CommaTexts ==
    {<<"a">> \o gap \o op \o after :
        gap \in Strings({<<" ">>, <<"\n">>}, MaxLen),
        op \in BinOps, after \in AfterOps}

\* Where the operator starts, and the operator.
CommaOpLo == 1 + LeadingWs(SubSeq(sm[2].src.val, 2, sm[2].source_len))

CommaOp ==
    CHOOSE op \in BinOps :
        StripPrefix(SubSeq(sm[2].src.val, CommaOpLo + 1, sm[2].source_len),
                    op).some

\* The formatting pass reaches an element of an array, a tuple, a call or a
\* parenthesis: the binary expression that is the whole file, its operator
\* op_str at p, and its left side the file's first byte.
DoCheckMissingCommaOp(p, op_str, ctxt, e_ctxt, op_ctxt, lhs_ctxt, external) ==
    /\ walk = NoWalk
    /\ ctxt = Root => ~external
    /\ LET e   == At(0, sm[2].source_len, e_ctxt)
           op  == At(p, p + Len(op_str), op_ctxt)
           lhs == At(0, 1, lhs_ctxt)
       IN  walk' = FmtCall("possible_missing_comma", ctxt, external,
                           [e |-> e, op |-> op, lhs |-> lhs, op_str |-> op_str],
                           CheckMissingComma(ctxt, e, op, op_str, lhs,
                                             external))
    /\ UNCHANGED <<sm, cur, call, hyg>>

InitComma ==
    /\ sm \in {SourceMapOf(t, "AbsentErr") : t \in CommaTexts}
    /\ cur = NoCursor
    /\ call = NoCall
    /\ hyg = NoHygiene
    /\ walk = NoWalk

NextComma ==
    \/ Expand(Root)
    \/ Return
    \/ \E c \in Ctxts :
           DoCheckMissingCommaOp(CommaOpLo, CommaOp, c, c, c, c, FALSE)

SpecComma == InitComma /\ [][NextComma]_vars

----------------------------------------------------------------------------
(* SpecCast: needless_type_cast on a function body with one `let` binding  *)
(* and the uses of it, in the order of the body.                            *)

\* The types of the bindings and of the casts.
Tys == {"u8", "i32", "f64", "bool"}

\* Ty::is_numeric
IsNumeric(ty) == ty \in {"u8", "i32", "f64"}

\* A `let` statement `let x[: ty] = ..`: whether it has a type annotation,
\* the type of its pattern, and whether it is a statement of the body's own
\* block (top) or of a block nested in it.
LetStmt(annotated, ty, top) == [annotated |-> annotated, ty |-> ty, top |-> top]

\* A use of the binding: a path expression, inside a closure or not, whose
\* parent is a cast to cast_to or (cast_to None) is not a cast.
Use(in_closure, cast_to) == [in_closure |-> in_closure, cast_to |-> cast_to]

\* The uses a body may hold.
Uses == {Use(c, t) : c \in BOOLEAN, t \in {None} \cup {Some(ty) : ty \in Tys \ {"bool"}}}

\* collect_bindings_from_block with collect_binding_from_local: the binding
\* of the `let` statement, or None.  ty_span is the span of the annotation.
CollectBinding(let_stmt) ==
    IF let_stmt.top /\ let_stmt.annotated /\ IsNumeric(let_stmt.ty)
    THEN Some([source_ty |-> let_stmt.ty,
               ty_span |-> Some(SpanData(0, 1, Root, None))])
    ELSE None

\* The usages for_each_expr_without_closures collects in
\* check_binding_usages: one UsageInfo for each use outside closures.
Usages(uses) ==
    LET outside == SelectSeq(uses, LAMBDA u : ~u.in_closure)
    IN  [i \in 1 .. Len(outside) |->
            [is_cast |-> outside[i].cast_to.some, cast_to |-> outside[i].cast_to]]

\* check_binding_usages: what the lint emits for the binding.
CheckBindingUsages(binding_info, uses) ==
    LET usages == Usages(uses)
    IN  IF usages = <<>> THEN None
        ELSE IF ~(\A i \in 1 .. Len(usages) : usages[i].is_cast) THEN None
        ELSE IF ~usages[1].cast_to.some THEN None
        ELSE IF ~(\A i \in 1 .. Len(usages) : usages[i].cast_to = usages[1].cast_to)
        THEN None
        ELSE IF usages[1].cast_to.val = binding_info.source_ty THEN None
        ELSE Some(Diag(binding_info.ty_span.val,
                       << Suggestion(binding_info.ty_span.val,
                                     usages[1].cast_to.val, "MaybeIncorrect",
                                     {binding_info.ty_span.val}) >>,
                       None))

\* needless_type_cast::check on a body with the one `let` statement and the
\* uses of its binding.
NeedlessTypeCast(let_stmt, uses) ==
    LET binding == CollectBinding(let_stmt)
    IN  IF binding.some THEN CheckBindingUsages(binding.val, uses) ELSE None

\* The casts pass checks a body.
DoNeedlessTypeCast(let_stmt, uses) ==
    /\ walk = NoWalk
    /\ walk' = LintCall("needless_type_cast",
                        [let_stmt |-> let_stmt, uses |-> uses],
                        NeedlessTypeCast(let_stmt, uses))
    /\ UNCHANGED <<sm, cur, call, hyg>>

NextCast ==
    \/ Return
    \/ \E annotated \in BOOLEAN, ty \in Tys, top \in BOOLEAN,
          n \in 0 .. MaxLen :
         \E uses \in [1 .. n -> Uses] :
           DoNeedlessTypeCast(LetStmt(annotated, ty, top), uses)

SpecCast == InitHyg /\ [][NextCast]_vars

----------------------------------------------------------------------------
(* SpecPrintln: write::empty_string::check on every file made of the        *)
(* arguments of a println!: "(", the literal "", what follows it, and ")".  *)

\* What may follow the literal: commas, spaces and a two-byte character
\* (such as the whitespace U+0085).
PrintlnAlphabet == {<<",">>, <<" ">>, <<"C3", "A9">>}

\* The files of SpecPrintln.
PrintlnTexts ==
    {<<"(", "\"", "\"">> \o after \o <<")">> :
        after \in Strings(PrintlnAlphabet, MaxWsLen)}

InitPrintln ==
    /\ sm \in {SourceMapOf(t, "AbsentErr") : t \in PrintlnTexts}
    /\ cur = NoCursor
    /\ call = NoCall
    /\ hyg = NoHygiene
    /\ walk = NoWalk

NextPrintln ==
    \/ Return
    \/ \E template_is_lf \in BOOLEAN : DoPrintlnEmptyString(1, 3, template_is_lf)

SpecPrintln == InitPrintln /\ [][NextPrintln]_vars

----------------------------------------------------------------------------
(* SpecCtx: snippet_with_context and filter_some on the spans of one file,  *)
(* in every context, macros nested in macros included.                      *)

\* snippet_with_context_sm that reports a macro call whenever the walk
\* succeeds.
SnippetWithContextAlwaysMacro(span, outer, default, applicability) ==
    LET walked == WalkSpanToContext(span, outer)
        app    == IF ~walked.some /\ applicability # "Unspecified"
                  THEN "MaybeIncorrect" ELSE applicability
        r      == SnippetWithApplicability(IF walked.some THEN walked.val ELSE span,
                                           default, app)
    IN  [text |-> r.text, is_macro_call |-> walked.some,
         applicability |-> r.applicability]

\* snippet_with_context: the text and the flag returned, and the
\* applicability left in the caller's variable.
SnippetWithContext(span, outer, default, applicability) ==
    LET walked == WalkSpanToContext(span, outer)
        app    == IF ~walked.some /\ applicability # "Unspecified"
                  THEN "MaybeIncorrect" ELSE applicability
        r      == SnippetWithApplicability(IF walked.some THEN walked.val ELSE span,
                                           default, app)
    IN  [text |-> r.text,
         is_macro_call |-> walked.some /\ Data(span).ctxt # outer,
         applicability |-> r.applicability]

\* filter_some::check for `Some(value).filter(|_| condition)` at expr, the
\* closure in the context arg_ctxt: shape says that the receiver is a call
\* of Some, the closure ignores its parameter and the MSRV allows then_some;
\* low_precedence that cx.precedence(condition) < Unambiguous; indent is
\* indent_of(expr.span).
FilterSome(shape, expr, arg_ctxt, condition, value, low_precedence, indent) ==
    LET c == SnippetWithContext(SpanFromSpanData(condition), arg_ctxt,
                                <<".", ".">>, "MaybeIncorrect")
        parentheses == ~c.is_macro_call /\ low_precedence
        v == SnippetWithApplicability(SpanFromSpanData(value), <<".", ".">>,
                                      c.applicability)
        sugg == (IF parentheses THEN <<"(">> ELSE <<>>) \o c.text
                \o (IF parentheses THEN <<")">> ELSE <<>>)
                \o <<".then_some(">> \o v.text \o <<")">>
    IN  IF shape
        THEN Some(Diag(expr,
                 << Suggestion(expr, ReindentMultiline(sugg, TRUE, indent),
                               v.applicability, {condition, value}) >>,
                 None))
        ELSE None

\* The file of SpecCtx: two one-byte characters and a two-byte character,
\* so that the call site of the last macro has no text.
CtxText == <<"a", "a", "C3", "A9">>

\* A lint asks for the snippet of the span d walked to the context outer,
\* with its applicability at app.
DoSnippetWithContext(d, outer, app) ==
    /\ walk = NoWalk
    /\ LET r == SnippetWithContext(SpanFromSpanData(d), outer, DefaultText, app)
       IN  walk' = [op |-> "snippet_with_context", d |-> d, outer |-> outer,
                    app |-> app, text |-> r.text,
                    is_macro_call |-> r.is_macro_call,
                    applicability |-> r.applicability]
    /\ UNCHANGED <<sm, cur, call, hyg>>

\* The methods pass reaches `Some(value).filter(|_| condition)`, the whole
\* file, with the condition at lo..hi.
DoFilterSome(shape, lo, hi, ctxt, arg_ctxt, value_ctxt, low_precedence, indent) ==
    /\ walk = NoWalk
    /\ LET expr == At(0, sm[2].source_len, arg_ctxt)
           condition == At(lo, hi, ctxt)
           value == At(0, 1, value_ctxt)
       IN  walk' = LintCall("filter_some",
                            [condition |-> condition, arg_ctxt |-> arg_ctxt,
                             value |-> value, low_precedence |-> low_precedence],
                            FilterSome(shape, expr, arg_ctxt, condition, value,
                                       low_precedence, indent))
    /\ UNCHANGED <<sm, cur, call, hyg>>

InitCtx ==
    /\ sm = SourceMapOf(CtxText, "AbsentErr")
    /\ cur = NoCursor
    /\ call = NoCall
    /\ hyg = NoHygiene
    /\ walk = NoWalk

NextCtx ==
    \/ \E c \in Ctxts : Expand(c)
    \/ Return
    \/ /\ walk = NoWalk
       /\ \E lo \in 0 .. sm[2].source_len, hi \in 0 .. sm[2].source_len,
             ctxt \in Ctxts, outer \in Ctxts, app \in Applicabilities :
              lo <= hi /\ DoSnippetWithContext(At(lo, hi, ctxt), outer, app)
    \/ /\ walk = NoWalk
       /\ \E shape \in BOOLEAN, lo \in 0 .. sm[2].source_len,
             hi \in 0 .. sm[2].source_len, ctxt \in Ctxts, arg_ctxt \in Ctxts,
             low_precedence \in BOOLEAN, indent \in {None, Some(1)} :
            \E value_ctxt \in {Root, arg_ctxt} :
              lo < hi /\ DoFilterSome(shape, lo, hi, ctxt, arg_ctxt, value_ctxt,
                                      low_precedence, indent)

SpecCtx == InitCtx /\ [][NextCtx]_vars

----------------------------------------------------------------------------
(* SpecReindent: reindent_multiline on every short text of spaces, tabs,    *)
(* line feeds and a letter.                                                  *)

\* The characters of the texts of SpecReindent.
ReindentAlphabet == {<<" ">>, <<"\t">>, <<"a">>, <<"\n">>}

\* The indentations asked for.
Indents == {None} \cup {Some(n) : n \in 0 .. MaxLen}

\* A caller reindents s.
DoReindentMultiline(s, ignore_first, indent) ==
    /\ walk = NoWalk
    /\ walk' = [op |-> "reindent_multiline", s |-> s,
                ignore_first |-> ignore_first, indent |-> indent,
                out |-> ReindentMultiline(s, ignore_first, indent)]
    /\ UNCHANGED <<sm, cur, call, hyg>>

NextReindent ==
    \/ Return
    \/ /\ walk = NoWalk
       /\ \E s \in Strings(ReindentAlphabet, MaxWsLen), ignore_first \in BOOLEAN,
             indent \in Indents : DoReindentMultiline(s, ignore_first, indent)

SpecReindent == InitHyg /\ [][NextReindent]_vars

----------------------------------------------------------------------------
(* SpecEdit: edit_range with closures that return any range or None, and    *)
(* the operations built on it.                                               *)

\* What a closure may return: None, or a range of two usize up to one past
\* the length of the file, in order or not.
ClosureResults ==
    {None} \cup {Some(Range(start, end)) :
                    start \in 0 .. sm[2].source_len + 1,
                    end \in 0 .. sm[2].source_len + 1}

\* edit_range(f) on the live cursor, f a closure that returns r: the call
\* record keeps what f was given.
DoEditRange(r) ==
    /\ call = NoCall
    /\ cur.file # 0
    /\ cur' = EditRange(cur, r).cur
    /\ call' = Call("edit_range", 0, 0, <<>>, EditRange(cur, r).some)
                   @@ [f_src |-> FileText(cur), f_start |-> cur.start,
                       f_end |-> cur.end, f_ret |-> r]
    /\ UNCHANGED <<sm, hyg, walk>>

NextEdit ==
    \/ NewValid
    \/ Chain
    \/ Drop
    \/ \E r \in ClosureResults : DoEditRange(r)
    \/ DoRemoveLeadingWhitespace
    \/ DoAddTrailingWhitespace
    \/ \E pat \in Patterns : DoAddLeadingMatch(pat)
    \/ \E pat \in Patterns : DoAddTrailingMatch(pat)
    \/ \E pat \in Patterns : DoSetToPrefix(pat)
    \/ \E pat \in Patterns : DoSetToSuffix(pat)

SpecEdit == Init /\ [][NextEdit]_vars

----------------------------------------------------------------------------
(* SpecFrame: every operation of Spec and edit_range with any closure.      *)

NextFrame ==
    \/ Next
    \/ \E r \in ClosureResults : DoEditRange(r)

SpecFrame == Init /\ [][NextFrame]_vars

----------------------------------------------------------------------------
(* SpecTrim: trim_span on every span of the source map of Spec.             *)

\* trim_span
TrimSpan(span) ==
    LET data == Data(span)
        sf   == sm[LookupSourceFileIdx(data.lo)]
        snip == StrGet(sf.src.val, data.lo - sf.start_pos, data.hi - sf.start_pos)
    IN  IF ~sf.src.some THEN span
        ELSE IF ~snip.some THEN span
        ELSE SpanNew(data.lo + LeadingWs(snip.val),
                     data.hi - TrailingWs(snip.val), data.ctxt, data.parent)

\* A lint trims the span d.
DoTrimSpan(d) ==
    /\ walk = NoWalk
    /\ walk' = [op |-> "trim_span", d |-> d,
                out |-> Data(TrimSpan(SpanFromSpanData(d)))]
    /\ UNCHANGED <<sm, cur, call, hyg>>

NextTrim ==
    \/ Expand(Root)
    \/ Return
    \/ /\ walk = NoWalk
       /\ \E lo \in Positions, hi \in Positions, ctxt \in Ctxts,
             parent \in Parents :
              lo <= hi /\ DoTrimSpan(SpanData(lo, hi, ctxt, parent))

SpecTrim == Init /\ [][NextTrim]_vars

----------------------------------------------------------------------------
(* SpecRarrow: position_before_rarrow on short texts with arrows, whitespace *)
(* and a two-byte character.                                                 *)

\* str::rfind("->"): the byte index of the last `->`, or None.
RfindRarrow(s) ==
    LET at == {i \in 0 .. Len(s) - 2 : s[i + 1] = "-" /\ s[i + 2] = ">"}
    IN  IF at = {} THEN None
        ELSE Some(CHOOSE i \in at : \A j \in at : j <= i)

\* s.chars().collect(): one element for each character, held as its first
\* byte.
Chars(s) == SelectSeq(s, LAMBDA b : ~IsContinuation(b))

RECURSIVE RarrowLoop(_, _)
\* The while loop of position_before_rarrow: chars.get(rpos - 1) indexes the
\* vector of characters with a byte index.
RarrowLoop(chars, rpos) ==
    IF rpos > 1 /\ rpos - 1 < Len(chars) /\ IsWhitespace(chars[rpos])
    THEN RarrowLoop(chars, rpos - 1)
    ELSE rpos

\* position_before_rarrow
PositionBeforeRarrow(s) ==
    LET found == RfindRarrow(s)
    IN  IF found.some THEN Some(RarrowLoop(Chars(s), found.val)) ELSE None

RarrowAlphabet == {<<" ">>, <<"a">>, <<"-", ">">>, <<"C3", "A9">>}

\* A caller asks for the position before the arrow of s.
DoPositionBeforeRarrow(s) ==
    /\ walk = NoWalk
    /\ walk' = [op |-> "position_before_rarrow", s |-> s,
                out |-> PositionBeforeRarrow(s)]
    /\ UNCHANGED <<sm, cur, call, hyg>>

NextRarrow ==
    \/ Return
    \/ /\ walk = NoWalk
       /\ \E s \in Strings(RarrowAlphabet, MaxWsLen) : DoPositionBeforeRarrow(s)

SpecRarrow == InitHyg /\ [][NextRarrow]_vars

----------------------------------------------------------------------------
(* SpecApp: a lint declares one applicability and passes it to any sequence *)
(* of snippet_with_applicability and snippet_with_context calls, on the     *)
(* spans of the local file in every context.                                *)

\* `let mut applicability = app;`: before is the value ahead of the last
\* call, left and placeholders tell whether the variable has ever been other
\* than MachineApplicable and whether it has ever been HasPlaceholders.
LetApplicability(app) ==
    /\ walk = NoWalk
    /\ walk' = [op |-> "let_applicability", applicability |-> app,
                before |-> app, left |-> app # "MachineApplicable",
                placeholders |-> app = "HasPlaceholders"]
    /\ UNCHANGED <<sm, cur, call, hyg>>

\* The variable after a call that leaves app in it.
AfterCall(app) ==
    [op |-> "let_applicability", applicability |-> app,
     before |-> walk.applicability,
     left |-> walk.left \/ app # "MachineApplicable",
     placeholders |-> walk.placeholders \/ app = "HasPlaceholders"]

\* snippet_with_applicability(cx, d, "_", &mut applicability)
CallSnippetWithApplicability(d) ==
    /\ walk.op = "let_applicability"
    /\ walk' = AfterCall(SnippetWithApplicability(SpanFromSpanData(d),
                             DefaultText, walk.applicability).applicability)
    /\ UNCHANGED <<sm, cur, call, hyg>>

\* snippet_with_context(cx, d, outer, "_", &mut applicability)
CallSnippetWithContext(d, outer) ==
    /\ walk.op = "let_applicability"
    /\ walk' = AfterCall(SnippetWithContext(SpanFromSpanData(d), outer,
                             DefaultText, walk.applicability).applicability)
    /\ UNCHANGED <<sm, cur, call, hyg>>

NextApp ==
    \/ \E c \in Ctxts : Expand(c)
    \/ \E app \in Applicabilities : LetApplicability(app)
    \/ /\ walk # NoWalk
       /\ \E lo \in 0 .. sm[2].source_len, hi \in 0 .. sm[2].source_len,
             ctxt \in Ctxts :
              lo <= hi /\ CallSnippetWithApplicability(At(lo, hi, ctxt))
    \/ /\ walk # NoWalk
       /\ \E lo \in 0 .. sm[2].source_len, hi \in 0 .. sm[2].source_len,
             ctxt \in Ctxts, outer \in Ctxts :
              lo <= hi /\ CallSnippetWithContext(At(lo, hi, ctxt), outer)
    \/ Return

SpecApp == Init /\ [][NextApp]_vars

----------------------------------------------------------------------------
(* What the claims speak of, said without the operations' own arithmetic *)

\* The file that holds pos: each file holds its start, its end and the
\* positions between.
FileContaining(pos) ==
    CHOOSE i \in 1 .. Len(sm) :
        sm[i].start_pos <= pos /\ pos <= sm[i].start_pos + sm[i].source_len

\* The text of file i is at hand: it is a local file, or a foreign file
\* whose source has been loaded.
TextAvailable(i) == sm[i].src.some \/ sm[i].external = "Present"

\* The text of file i, when at hand.
TextOfFile(i) == IF sm[i].src.some THEN sm[i].src.val ELSE sm[i].ext_text

\* The byte of file i at the position pos of the source map.
ByteAt(i, pos) == TextOfFile(i)[pos - sm[i].start_pos + 1]

\* The bytes that the range lo..hi of file i denotes.
BytesOf(i, lo, hi) == [k \in 1 .. (hi - lo) |-> ByteAt(i, lo + k - 1)]

\* pos is a position of file i that does not split a character.
OnBoundary(i, pos) ==
    /\ FileContaining(pos) = i
    /\ \/ pos = sm[i].start_pos + sm[i].source_len
       \/ ~IsContinuation(ByteAt(i, pos))

\* lo..hi is a valid range of file i.
ValidIn(i, lo, hi) == lo <= hi /\ OnBoundary(i, lo) /\ OnBoundary(i, hi)

\* The cursor's range, start..end relative to its file, is valid.
ValidRange(c, start, end) ==
    /\ 0 <= start /\ start <= end /\ end <= sm[c.file].source_len
    /\ ValidIn(c.file, start + sm[c.file].start_pos, end + sm[c.file].start_pos)

----------------------------------------------------------------------------
(* SourceFileRange::new (SpecNew) *)

\* C1: a cursor that SourceFileRange::new builds for a valid range R of a
\* file whose text is at hand gives from current_text exactly the bytes R
\* denotes, and from source_range R itself.
C1_NewOnValidRange ==
    (/\ call.op = "new"
     /\ TextAvailable(FileContaining(call.lo))
     /\ ValidIn(FileContaining(call.lo), call.lo, call.hi))
    => /\ call.res
       /\ CurrentText(cur) = Some(BytesOf(FileContaining(call.lo), call.lo, call.hi))
       /\ SourceRange(cur) = Range(call.lo, call.hi)

\* new has built a cursor on a valid range of two bytes or more that
\* starts inside the local file.
C1_Witness ==
    /\ call.op = "new" /\ call.res
    /\ ValidIn(2, call.lo, call.hi)
    /\ call.lo > sm[2].start_pos
    /\ call.hi - call.lo >= 2

\* C5 as claimed: new returns Some exactly for a range that lies in one file
\* whose text is at hand, and None for a range that spans files.
C5_NewNoneAcrossFiles ==
    call.op = "new"
    => (call.res <=> /\ FileContaining(call.lo) = FileContaining(call.hi)
                     /\ TextAvailable(FileContaining(call.lo)))

\* C5 as amended: new returns None exactly when the text of the file that
\* holds the start of the range is not at hand; for a range that runs past
\* the end of that file it still returns a cursor, whose current_text is
\* None.
C5_NewNoneIffNoText ==
    call.op = "new"
    => /\ call.res <=> TextAvailable(FileContaining(call.lo))
       /\ (call.res /\ FileContaining(call.hi) # FileContaining(call.lo))
              => /\ cur.file = FileContaining(call.lo)
                 /\ ~CurrentText(cur).some

\* new has returned a cursor for a range that starts in a foreign file it
\* loaded and ends in the next file.
C5_Witness ==
    /\ call.op = "new" /\ call.res
    /\ sm[FileContaining(call.lo)].external = "Present"
    /\ FileContaining(call.hi) # FileContaining(call.lo)

----------------------------------------------------------------------------
(* The operations that take a position or a range (Spec) *)

\* The range of the cursor before the call, in positions of the source map.
PreRange ==
    Range(call.pre_start + sm[cur.file].start_pos,
          call.pre_end + sm[cur.file].start_pos)

\* The cursor was valid when the call was made.
PreValid == cur.file # 0 /\ ValidRange(cur, call.pre_start, call.pre_end)

\* The call left the range as it was.
RangeUntouched == cur.start = call.pre_start /\ cur.end = call.pre_end

\* C2 as claimed: on a valid cursor with the range A and for a range B of
\* the same file, neither of them empty, set_range_between_other(B) sets the range to
\* A.end..B.start when A.end <= B.start, to B.end..A.start when
\* B.end <= A.start, and returns None, the range untouched, otherwise.
C2_RangeBetweenOther ==
    (/\ call.op = "set_range_between_other"
     /\ PreValid
     /\ PreRange.start < PreRange.end
     /\ call.lo < call.hi
     /\ FileContaining(call.lo) = cur.file
     /\ FileContaining(call.hi) = cur.file)
    => IF PreRange.end <= call.lo
       THEN call.res /\ SourceRange(cur) = Range(PreRange.end, call.lo)
       ELSE IF call.hi <= PreRange.start
       THEN call.res /\ SourceRange(cur) = Range(call.hi, PreRange.start)
       ELSE ~call.res /\ RangeUntouched

\* The operations that take a position, and the one that takes a range.
Setters ==
    {"set_start_if_before", "set_start_if_within",
     "set_end_if_after", "set_end_if_within"}

\* Every position given to the call lies in the cursor's file, on a
\* character boundary.
ArgsInFile ==
    call.op \in Setters \cup {"set_range_between_other"}
    => OnBoundary(cur.file, call.lo) /\ OnBoundary(cur.file, call.hi)

\* C3 as claimed: whatever the calls made on a cursor built on a valid
\* range, and whatever their arguments, its range is valid.
C3_RangeAlwaysValid == cur.file # 0 => ValidRange(cur, cur.start, cur.end)

\* C3 as amended: a call made on a cursor with a valid range, every position
\* given to it in the cursor's file and on a character boundary, leaves the
\* range valid, whether it returned Some or None; so does new on a valid
\* range.
C3_RangeStaysValid ==
    (/\ call.op # "none" /\ cur.file # 0
     /\ call.op # "new" => PreValid
     /\ ArgsInFile)
    => ValidRange(cur, cur.start, cur.end)

\* A call with a range of the cursor's file has moved the cursor to a
\* range of a character or more.
C3_Witness ==
    /\ call.op = "set_range_between_other" /\ call.res
    /\ PreValid /\ ArgsInFile
    /\ cur.start < cur.end
    /\ cur.start # call.pre_start /\ cur.end # call.pre_end

\* The position of the call lies where the operation looks for it.
PosWhereNamed ==
    CASE call.op = "set_start_if_before" -> call.lo <= PreRange.start
      [] call.op = "set_end_if_after"    -> call.lo >= PreRange.end
      [] OTHER -> PreRange.start <= call.lo /\ call.lo <= PreRange.end

\* The call moved the boundary it names to the position, and no other.
NamedBoundaryMoved ==
    IF call.op \in {"set_start_if_before", "set_start_if_within"}
    THEN SourceRange(cur) = Range(call.lo, PreRange.end)
    ELSE SourceRange(cur) = Range(PreRange.start, call.lo)

\* Moving the named boundary to the position would put the start after the
\* end.
WouldInvert ==
    IF call.op \in {"set_start_if_before", "set_start_if_within"}
    THEN call.lo > PreRange.end
    ELSE call.lo < PreRange.start

----------------------------------------------------------------------------
(* The whitespace operations (SpecWs) *)

\* C6: add_trailing_whitespace on a valid cursor returns Some and leaves
\* the start where it was, and a second call right after it returns Some
\* and leaves the range of the first.
C6_AddTrailingWhitespaceIdempotent ==
    (call.op = "add_trailing_whitespace" /\ PreValid)
    => /\ call.res
       /\ cur.start = call.pre_start
       /\ AddTrailingWhitespace(cur) = Ret(TRUE, cur)

\* add_trailing_whitespace has taken two whitespace characters or more
\* into the range and has left some text after it.
C6_Witness ==
    /\ call.op = "add_trailing_whitespace" /\ call.res
    /\ cur.end >= call.pre_end + 2
    /\ cur.end < sm[cur.file].source_len

\* The text of the cursor's file.
Text == TextOfFile(cur.file)

\* The start of the whitespace that ends where the range began.
WsStart ==
    CHOOSE p \in 0 .. call.pre_start :
        /\ \A k \in p + 1 .. call.pre_start : IsWhitespace(Text[k])
        /\ p = 0 \/ ~IsWhitespace(Text[p])

\* (a) The whitespace before the range contains a line break.
WsHasLineBreak == \E k \in WsStart + 1 .. call.pre_start : Text[k] = "\n"

\* The start of the line that holds the text before the whitespace.
LineStartBeforeWs ==
    CHOOSE p \in 0 .. WsStart :
        /\ p = 0 \/ Text[p] = "\n"
        /\ \A k \in p + 1 .. WsStart : Text[k] # "\n"

\* (b) The line the range would extend onto ends in a line comment or an
\* unterminated token.
LineEndsInComment ==
    EndsWithLineCommentOrBroken(SubSeq(Text, LineStartBeforeWs + 1, WsStart))

\* (c) A token that is not whitespace follows the range before the next
\* line break.
TokenFollowsOnLine ==
    \E k \in call.pre_end + 1 .. Len(Text) :
        /\ ~IsWhitespace(Text[k])
        /\ \A j \in call.pre_end + 1 .. k - 1 : Text[j] # "\n"

\* C7 as claimed: add_leading_whitespace on a valid cursor returns Some; it
\* leaves the range untouched when (a), (b) and (c) hold, and otherwise
\* moves the start back over the whitespace before the range, the end
\* untouched.
C7_AddLeadingWhitespace ==
    (call.op = "add_leading_whitespace" /\ PreValid)
    => /\ call.res
       /\ cur.end = call.pre_end
       /\ cur.start =
              IF WsHasLineBreak /\ LineEndsInComment /\ TokenFollowsOnLine
              THEN call.pre_start
              ELSE WsStart

----------------------------------------------------------------------------
(* walk_to_ctxt and the SpanLike projections (SpecHyg) *)

RECURSIVE CallSiteChain(_)
\* The call-site chain of the span data d: d, the call site of the expansion
\* that d comes from, the call site of the expansion that one comes from,
\* and so on up to a span written in the root context.
CallSiteChain(d) ==
    <<d>> \o (IF d.ctxt = Root THEN <<>> ELSE CallSiteChain(Data(hyg[d.ctxt])))

\* The places of the chain of the walked span whose context is the target.
Hits ==
    {i \in 1 .. Len(CallSiteChain(walk.d)) :
        CallSiteChain(walk.d)[i].ctxt = walk.to}

\* The first span of the chain whose context is the target.
FirstHit == CallSiteChain(walk.d)[CHOOSE i \in Hits : \A j \in Hits : i <= j]

\* C8: walk_to_ctxt on a Span or a SpanData returns None exactly when no
\* span of its call-site chain, itself included, has the target context;
\* Some holds the range of the first span of the chain that has it; and
\* walk_span_to_context returns None in the same cases and that first span
\* otherwise.
C8_WalkToCtxtFollowsChain ==
    /\ (walk.op = "walk_to_ctxt" /\ walk.impl # "Range")
           => /\ walk.res.some <=> Hits # {}
              /\ walk.res.some => walk.res.val = Range(FirstHit.lo, FirstHit.hi)
    /\ walk.op = "walk_span_to_context"
           => /\ walk.res.some <=> Hits # {}
              /\ walk.res.some => walk.res.val = FirstHit

\* A span from a macro used in the body of another macro has been walked
\* to the context of the call of the outer macro: two steps up the chain.
C8_Witness ==
    /\ walk.op = "walk_to_ctxt" /\ walk.impl = "Span" /\ walk.res.some
    /\ Len(CallSiteChain(walk.d)) >= 3
    /\ FirstHit = CallSiteChain(walk.d)[3]

\* C9: walk_to_ctxt on a Span or a SpanData that is in the target context
\* returns the range of that span; on a byte range it returns the range
\* when the target is the root context and None otherwise.
C9_WalkToOwnCtxt ==
    walk.op = "walk_to_ctxt"
    => /\ (walk.impl # "Range" /\ walk.d.ctxt = walk.to)
              => walk.res = Some(Range(walk.d.lo, walk.d.hi))
       /\ walk.impl = "Range"
              => walk.res = IF walk.to = Root
                            THEN Some(Range(walk.d.lo, walk.d.hi))
                            ELSE None

\* A span inside an expansion has been walked to its own context.
C9_Witness ==
    /\ walk.op = "walk_to_ctxt" /\ walk.impl = "SpanData"
    /\ walk.d.ctxt = walk.to /\ walk.to # Root
    /\ walk.d.lo < walk.d.hi
    /\ walk.res.some

\* C10 as claimed: for each implementation and span data d with
\* d.lo <= d.hi, into_span_data of from_span_data(d) is d, and into_range of
\* it is d.lo..d.hi.
C10_RoundTripEqual ==
    (walk.op = "round_trip" /\ walk.d.lo <= walk.d.hi)
    => /\ walk.back = walk.d
       /\ walk.range = Range(walk.d.lo, walk.d.hi)

\* C10 as amended: for d with d.lo <= d.hi, into_span_data of
\* from_span_data(d) is d for Span and SpanData; for a byte range it has the
\* start and the end of d, the root context and no parent; into_range of
\* from_span_data(d) is d.lo..d.hi for all three.
C10_RoundTripKeepsRange ==
    (walk.op = "round_trip" /\ walk.d.lo <= walk.d.hi)
    => /\ walk.impl # "Range" => walk.back = walk.d
       /\ walk.impl = "Range"
              => walk.back = SpanData(walk.d.lo, walk.d.hi, Root, None)
       /\ walk.range = Range(walk.d.lo, walk.d.hi)

\* The data of a span with a parent, inside an expansion, has been through
\* a byte range and back, and has come back in the root context.
C10_Witness ==
    /\ walk.op = "round_trip" /\ walk.impl = "Range"
    /\ walk.d.lo < walk.d.hi
    /\ walk.d.ctxt # Root /\ walk.d.parent.some
    /\ walk.back.ctxt = Root

----------------------------------------------------------------------------
(* get_line_indent (SpecWs) *)

\* The start of the line that holds the start of the range: the last
\* position at or before it that begins the file or follows a line feed.  A
\* position at the very end of a text that ends in a line feed is on the
\* line of that line feed.
LineStartOfRange ==
    CHOOSE p \in 0 .. cur.start :
        /\ p = 0 \/ (Text[p] = "\n" /\ p < Len(Text))
        /\ \A q \in p + 1 .. cur.start : ~(Text[q] = "\n" /\ q < Len(Text))

\* The end of that line: the position of its line feed, or the end of the
\* text.
LineEndOfRange ==
    CHOOSE p \in LineStartOfRange .. Len(Text) :
        /\ p = Len(Text) \/ Text[p + 1] = "\n"
        /\ \A q \in LineStartOfRange + 1 .. p : Text[q] # "\n"

\* The end of the longest run of whitespace from the start of that line
\* that does not reach past the end of the line.
IndentEnd ==
    CHOOSE p \in LineStartOfRange .. LineEndOfRange :
        /\ \A q \in LineStartOfRange + 1 .. p : IsWhitespace(Text[q])
        /\ p = LineEndOfRange \/ ~IsWhitespace(Text[p + 1])

\* C11 as claimed: get_line_indent on a valid cursor returns the leading
\* whitespace of the line that holds the start of the range, and no
\* character past the end of that line.
C11_LineIndent ==
    (call.op = "get_line_indent" /\ ValidRange(cur, cur.start, cur.end))
    => call.out = SubSeq(Text, LineStartOfRange + 1, IndentEnd)

----------------------------------------------------------------------------
(* The applicability of the suggestions (SpecLint) *)

\* The lints the claim names.
DowngradingLints ==
    {"suspicious_unary_op_formatting", "ifs_as_logical_ops",
     "manual_assert_eq", "needless_else", "println_empty_string"}

\* Every span the lint used to build the suggestion s: the span it replaces
\* and the spans of the nodes it read.
SpansUsed(s) == s.from \cup {s.sp}

\* C12 as claimed: a suggestion of one of the five lints is
\* MachineApplicable only if no span used to build it comes from a macro
\* expansion.
C12_MachineApplicableOnlyOutsideExpansions ==
    (walk.op = "lint" /\ walk.lint \in DowngradingLints /\ walk.diag.some)
    => \A i \in DOMAIN walk.diag.val.suggs :
           walk.diag.val.suggs[i].app = "MachineApplicable"
           => \A d \in SpansUsed(walk.diag.val.suggs[i]) : d.ctxt = Root

----------------------------------------------------------------------------
(* snippet_with_applicability (SpecSnip) *)

\* The span of the call is the valid range of a file whose text is at hand.
SnippetAvailable ==
    /\ FileContaining(walk.d.lo) = FileContaining(walk.d.hi)
    /\ TextAvailable(FileContaining(walk.d.lo))
    /\ ValidIn(FileContaining(walk.d.lo), walk.d.lo, walk.d.hi)

\* C13: snippet_with_applicability never changes Unspecified; any other
\* level becomes MaybeIncorrect for a span from a macro expansion; a level
\* that is MachineApplicable after that becomes HasPlaceholders when the
\* snippet is unavailable; otherwise the level is unchanged.  The text
\* returned is the span's source text when available, the default otherwise.
C13_SnippetWithApplicability ==
    walk.op = "snippet"
    => /\ walk.applicability =
              IF walk.app = "Unspecified" THEN "Unspecified"
              ELSE IF walk.d.ctxt # Root THEN "MaybeIncorrect"
              ELSE IF ~SnippetAvailable /\ walk.app = "MachineApplicable"
              THEN "HasPlaceholders"
              ELSE walk.app
       /\ walk.text =
              IF SnippetAvailable
              THEN BytesOf(FileContaining(walk.d.lo), walk.d.lo, walk.d.hi)
              ELSE DefaultText

\* The snippet of a span from a macro expansion was asked for at
\* HasPlaceholders and was unavailable: the level is now MaybeIncorrect.
C13_Witness ==
    /\ walk.op = "snippet"
    /\ walk.d.ctxt # Root
    /\ walk.app = "HasPlaceholders"
    /\ ~SnippetAvailable
    /\ walk.applicability = "MaybeIncorrect"
    /\ walk.text = DefaultText

----------------------------------------------------------------------------
(* The external-macro guard of the formatting lints (SpecLint) *)

\* C14 as claimed: a formatting lint emits nothing when the context of the
\* span it would edit comes from an external macro.
C14_NoFormattingLintInExternalMacro ==
    (walk.op = "lint" /\ walk.lint \in FormattingLints /\ walk.external)
    => ~walk.diag.some

----------------------------------------------------------------------------
(* suspicious_assignment_formatting (SpecAssign) *)

\* The end of the whitespace that starts at pos in the local file.
WhitespaceEnd(pos) ==
    CHOOSE q \in pos .. sm[2].start_pos + sm[2].source_len :
        /\ \A k \in pos .. q - 1 : IsWhitespace(ByteAt(2, k))
        /\ \/ q = sm[2].start_pos + sm[2].source_len
           \/ ~IsWhitespace(ByteAt(2, q))

\* C15: when suspicious_assignment_formatting fires, the lint span is the
\* two characters "=" and the operator, whitespace follows them, and the
\* diagnostic has exactly two suggestions, both of the assignment's
\* context: the operator and "=" over the lint span, and "= " and the
\* operator over the lint span and all the whitespace that follows it.
C15_TwoSuggestions ==
    (walk.op = "lint" /\ walk.lint = "suspicious_assignment_formatting"
        /\ walk.diag.some)
    => LET d  == walk.diag.val
           op == walk.in.op_str
       IN  /\ d.sp.lo = walk.in.op_sp.lo
           /\ d.sp.hi = d.sp.lo + 2
           /\ d.sp.ctxt = walk.in.assign.ctxt
           /\ BytesOf(2, d.sp.lo, d.sp.hi) = <<"=">> \o op
           /\ WhitespaceEnd(d.sp.hi) > d.sp.hi
           /\ Len(d.suggs) = 2
           /\ d.suggs[1].sp = d.sp
           /\ d.suggs[1].text = op \o <<"=">>
           /\ d.suggs[2].sp = [d.sp EXCEPT !.hi = WhitespaceEnd(d.sp.hi)]
           /\ d.suggs[2].text = <<"=", " ">> \o op

\* The lint fired on "=!" followed by two characters of whitespace, in the
\* context of a macro.
C15_Witness ==
    /\ walk.op = "lint"
    /\ walk.lint = "suspicious_assignment_formatting"
    /\ walk.diag.some
    /\ walk.in.op_str = <<"!">>
    /\ walk.in.assign.ctxt # Root
    /\ walk.diag.val.suggs[2].sp.hi = walk.diag.val.sp.hi + 2

----------------------------------------------------------------------------
(* possible_missing_else (SpecGap) *)

\* The gap between the two statements the lint was given: from the end of
\* the first to the start of the second.
GapLo == walk.in.first.hi

GapHi == walk.in.second.lo

\* The start of the line that holds the position pos of the local file.
LineStartAt(pos) ==
    CHOOSE p \in sm[2].start_pos .. pos :
        /\ p = sm[2].start_pos \/ ByteAt(2, p - 1) = "\n"
        /\ \A q \in p .. pos - 1 : ByteAt(2, q) # "\n"

\* The indentation of that line: the whitespace it starts with.
IndentAt(pos) ==
    LET from == LineStartAt(pos)
        to   == CHOOSE q \in from .. sm[2].start_pos + sm[2].source_len :
                    /\ \A k \in from .. q - 1 :
                           ByteAt(2, k) # "\n" /\ IsWhitespace(ByteAt(2, k))
                    /\ \/ q = sm[2].start_pos + sm[2].source_len
                       \/ ByteAt(2, q) = "\n"
                       \/ ~IsWhitespace(ByteAt(2, q))
    IN  BytesOf(2, from, to)

\* C16 as claimed: for an `if` expression that ends in "}" followed by a
\* block or an `if` of the same context, possible_missing_else fires
\* exactly when the gap between them holds nothing but whitespace other
\* than line feeds, possibly nothing at all; it then offers " else " and a
\* line feed with the indentation of the line where the gap starts, both
\* over the gap.
C16_MissingElse ==
    (walk.op = "lint" /\ walk.lint = "possible_missing_else")
    => /\ walk.diag.some
          <=> \A k \in GapLo .. GapHi - 1 :
                  ByteAt(2, k) # "\n" /\ IsWhitespace(ByteAt(2, k))
       /\ walk.diag.some
          => /\ Len(walk.diag.val.suggs) = 2
             /\ \A i \in 1 .. 2 :
                    /\ walk.diag.val.suggs[i].sp.lo = GapLo
                    /\ walk.diag.val.suggs[i].sp.hi = GapHi
             /\ walk.diag.val.suggs[1].text = <<" ", "e", "l", "s", "e", " ">>
             /\ walk.diag.val.suggs[2].text = <<"\n">> \o IndentAt(GapLo)

----------------------------------------------------------------------------
(* check_else_formatting (SpecGap) *)

\* The text between the then block and the else branch the lint was given
\* is whitespace, `else` at the position k, whitespace.
ElseAt(k) ==
    /\ BytesOf(2, k, k + 4) = <<"e", "l", "s", "e">>
    /\ \A j \in walk.in.then_.hi .. k - 1 : IsWhitespace(ByteAt(2, j))
    /\ \A j \in k + 4 .. walk.in.else_.lo - 1 : IsWhitespace(ByteAt(2, j))

ElsePos ==
    CHOOSE k \in walk.in.then_.hi .. walk.in.else_.lo - 4 : ElseAt(k)

\* The line feeds between the closing brace and `else`, and between `else`
\* and the block or `if` that follows it.
LinesBeforeElse ==
    Cardinality({j \in walk.in.then_.hi .. ElsePos - 1 : ByteAt(2, j) = "\n"})

LinesAfterElse ==
    Cardinality({j \in ElsePos + 4 .. walk.in.else_.lo - 1 :
                    ByteAt(2, j) = "\n"})

----------------------------------------------------------------------------
(* Invalid ranges (SpecRange) *)

\* The range start..end, relative to the local file, is one of those the
\* claim lists: inverted, past the end of the file, or with its end inside
\* a character.
ListedRange(start, end) ==
    \/ ULt(end, start)
    \/ ULt(sm[2].source_len, end)
    \/ ~OnBoundary(2, end + sm[2].start_pos)

\* The accessors of the text of a cursor.
Accessors == {"current_text", "as_text", "into_text"}

\* C18 as claimed: without debug assertions the accessors and map_range
\* return None on an inverted range, a range past the end of the file and a
\* range whose end is inside a character; with debug assertions set_range
\* panics on exactly those ranges.
C18_ListedRanges ==
    /\ (call.op \in Accessors /\ ListedRange(call.pre_start, call.pre_end))
       => ~call.res
    /\ (call.op = "map_range" /\ ListedRange(call.lo, call.hi)) => ~call.res
    /\ (call.op = "set_range" /\ call.debug)
       => (~call.res <=> ListedRange(call.lo, call.hi))

\* C18, amended: the same of every range that is not valid, a range whose
\* start is inside a character included; and the accessors and map_range
\* return Some on a valid range.
C18_InvalidRanges ==
    /\ call.op \in Accessors
       => (call.res <=> ValidRange([file |-> 2], call.pre_start, call.pre_end))
    /\ call.op = "map_range"
       => (call.res <=> ValidRange([file |-> 2], call.lo, call.hi))
    /\ (call.op = "set_range" /\ call.debug)
       => (call.res <=> ValidRange([file |-> 2], call.lo, call.hi))
    /\ (call.op = "set_range" /\ ~call.debug) => call.res

\* set_range with debug assertions panicked on a range in order and within
\* the file whose start is inside a character and whose end is not.
C18_Witness ==
    /\ call.op = "set_range"
    /\ call.debug
    /\ ~call.res
    /\ 0 < call.lo /\ call.lo < call.hi /\ call.hi <= sm[2].source_len
    /\ IsContinuation(ByteAt(2, call.lo + sm[2].start_pos))
    /\ OnBoundary(2, call.hi + sm[2].start_pos)

----------------------------------------------------------------------------
(* Interleaved callers of SourceText::new (SpecText) *)

\* The callers whose call has returned.
Returned == {p \in Callers : call.callers[p].pc = "done"}

\* What holds of every interleaving: the source is stored at most once,
\* every text returned so far is the same text, a caller that returns a text
\* returns the frozen text of the file, a caller past
\* ensure_source_file_source_present sees a frozen lock, and no call begun
\* after a call returned a text runs the loader.
SingleInitialization ==
    /\ call.stores <= 1
    /\ Cardinality(call.returned) <= 1
    /\ \A p \in Returned :
           call.callers[p].ret.some
           => /\ call.frozen
              /\ call.callers[p].ret = SourceTextNew(sm[call.file])
    /\ \A p \in Callers : call.callers[p].pc = "get" => call.frozen
    /\ ~call.reloaded

----------------------------------------------------------------------------
(* possible_missing_comma (SpecComma) *)

\* The text of the local file between the left operand and the operator.
CommaGap == SubSeq(sm[2].src.val, 2, CommaOpLo)

\* The byte that follows the operator.
AfterCommaOp == sm[2].src.val[CommaOpLo + Len(CommaOp) + 1]

\* C21: possible_missing_comma fires only on a binary expression whose
\* operator is one of `&&`, `*`, `-`, `&`, is preceded by whitespace, is
\* directly followed by its operand, and stands on a later line than the
\* left operand; an expression on one line is never reported.
C21_MissingCommaOnTwoLines ==
    (walk.op = "lint" /\ walk.lint = "possible_missing_comma" /\ walk.diag.some)
    => /\ walk.in.op_str \in {<<"&", "&">>, <<"*">>, <<"-">>, <<"&">>}
       /\ CommaGap # <<>>
       /\ AfterCommaOp = "a"
       /\ \E i \in 1 .. Len(CommaGap) : CommaGap[i] = "\n"

----------------------------------------------------------------------------
(* needless_type_cast (SpecCast) *)

\* The body checked holds at least one use of the binding, and every use,
\* inside closures too, is the operand of a cast to the one type ty.
AlwaysCastTo(ty) ==
    /\ walk.in.uses # <<>>
    /\ \A i \in 1 .. Len(walk.in.uses) : walk.in.uses[i].cast_to = Some(ty)

\* C22: needless_type_cast reports a numeric `let` binding with a type
\* annotation if and only if it is used, and every use of it in the body,
\* uses inside closures included, is the operand of a cast to one type that
\* is not the declared type.
C22_ReportedIffAlwaysCast ==
    (walk.op = "lint" /\ walk.lint = "needless_type_cast")
    => (walk.diag.some
        <=> /\ walk.in.let_stmt.annotated
            /\ IsNumeric(walk.in.let_stmt.ty)
            /\ \E ty \in Tys : ty # walk.in.let_stmt.ty /\ AlwaysCastTo(ty))

----------------------------------------------------------------------------
(* println_empty_string (SpecPrintln) *)

\* The local file after the one suggestion of the diagnostic is applied.
AfterRemoval ==
    LET sugg == walk.diag.val.suggs[1]
        text == sm[2].src.val
    IN  SubSeq(text, 1, sugg.sp.lo - sm[2].start_pos)
        \o sugg.text
        \o SubSeq(text, sugg.sp.hi - sm[2].start_pos + 1, Len(text))

\* A comma follows the literal of the local file at once.
CommaFollows ==
    sm[2].src.val[walk.in.format_args.hi - sm[2].start_pos + 1] = ","

\* C23: for println!/eprintln! with an empty string literal the span to
\* remove is the literal and the comma that follows it at once, if there is
\* one, and the literal alone otherwise; removing it from `("",)` leaves
\* `()`.
C23_RemovesFollowingComma ==
    (walk.op = "lint" /\ walk.lint = "println_empty_string" /\ walk.diag.some)
    => /\ Len(walk.diag.val.suggs) = 1
       /\ walk.diag.val.suggs[1].sp.lo = walk.in.format_args.lo
       /\ walk.diag.val.suggs[1].sp.hi
              = walk.in.format_args.hi + (IF CommaFollows THEN 1 ELSE 0)
       /\ walk.diag.val.suggs[1].text = <<>>
       /\ sm[2].src.val = <<"(", "\"", "\"", ",", ")">>
          => AfterRemoval = <<"(", ")">>

\* The lint fired on `("",)` and its span holds the literal and the comma.
C23_Witness ==
    /\ walk.op = "lint" /\ walk.lint = "println_empty_string"
    /\ walk.diag.some
    /\ sm[2].src.val = <<"(", "\"", "\"", ",", ")">>
    /\ walk.diag.val.suggs[1].sp.hi = walk.in.format_args.hi + 1
    /\ AfterRemoval = <<"(", ")">>

----------------------------------------------------------------------------
(* snippet_with_context and filter_some (SpecCtx) *)

\* The span data d is the valid range of a file whose text is at hand.
AvailableAt(d) ==
    /\ FileContaining(d.lo) = FileContaining(d.hi)
    /\ TextAvailable(FileContaining(d.lo))
    /\ ValidIn(FileContaining(d.lo), d.lo, d.hi)

\* The text at d, or the default when there is none.
TextAt(d, default) ==
    IF AvailableAt(d) THEN BytesOf(FileContaining(d.lo), d.lo, d.hi)
    ELSE default

\* The spans of the call-site chain of d, d itself excluded, that are
\* written in the context outer: the calls, written in outer, of the macros
\* d comes from.
CallsIn(d, outer) ==
    {i \in 2 .. Len(CallSiteChain(d)) : CallSiteChain(d)[i].ctxt = outer}

\* The innermost of them.
CallIn(d, outer) ==
    CallSiteChain(d)[CHOOSE i \in CallsIn(d, outer) :
                        \A j \in CallsIn(d, outer) : i <= j]

\* The text and the flag snippet_with_context is to return for d and outer.
ContextSnippet(d, outer, default) ==
    IF d.ctxt = outer THEN [text |-> TextAt(d, default), flag |-> FALSE]
    ELSE IF CallsIn(d, outer) # {}
    THEN [text |-> TextAt(CallIn(d, outer), default), flag |-> TRUE]
    ELSE [text |-> TextAt(d, default), flag |-> FALSE]

\* C24: snippet_with_context returns the span's own text and false when the
\* span is of the context outer, the text of the macro call written in outer
\* and true when the span comes from a macro expanded in outer, and the
\* span's own text and false otherwise, the applicability then being
\* MaybeIncorrect unless it was Unspecified; filter_some puts the condition
\* in parentheses exactly when the flag is false and the precedence of the
\* condition is low.
C24_SnippetWithContext ==
    /\ walk.op = "snippet_with_context"
       => /\ walk.text = ContextSnippet(walk.d, walk.outer, DefaultText).text
          /\ walk.is_macro_call = ContextSnippet(walk.d, walk.outer, DefaultText).flag
          /\ (walk.d.ctxt # walk.outer /\ CallsIn(walk.d, walk.outer) = {})
             => walk.applicability = IF walk.app = "Unspecified"
                                     THEN "Unspecified" ELSE "MaybeIncorrect"
    /\ (walk.op = "lint" /\ walk.lint = "filter_some" /\ walk.diag.some)
       => LET c == ContextSnippet(walk.in.condition, walk.in.arg_ctxt, <<".", ".">>)
              parentheses == ~c.flag /\ walk.in.low_precedence
          IN  walk.diag.val.suggs[1].text =
                  (IF parentheses THEN <<"(">> ELSE <<>>) \o c.text
                  \o (IF parentheses THEN <<")">> ELSE <<>>)
                  \o <<".then_some(">> \o TextAt(walk.in.value, <<".", ".">>)
                  \o <<")">>

\* filter_some met a condition of low precedence that is the expansion of a
\* macro called in the closure's context, and wrote the call without
\* parentheses.
C24_Witness ==
    /\ walk.op = "lint" /\ walk.lint = "filter_some" /\ walk.diag.some
    /\ walk.in.low_precedence
    /\ walk.in.condition.ctxt # walk.in.arg_ctxt
    /\ CallsIn(walk.in.condition, walk.in.arg_ctxt) # {}
    /\ AvailableAt(CallIn(walk.in.condition, walk.in.arg_ctxt))
    /\ Head(walk.diag.val.suggs[1].text) # "("

\* snippet_with_context was asked for a span that cannot be walked to outer
\* at HasPlaceholders.
C24_WitnessNoWalk ==
    /\ walk.op = "snippet_with_context"
    /\ walk.d.ctxt # walk.outer /\ CallsIn(walk.d, walk.outer) = {}
    /\ walk.app = "HasPlaceholders"
    /\ walk.applicability = "MaybeIncorrect"

----------------------------------------------------------------------------
(* reindent_multiline (SpecReindent) *)

RECURSIVE Indentation(_)
\* The number of spaces and tabs a line starts with.
Indentation(l) ==
    IF l # <<>> /\ Head(l) \in {" ", "\t"} THEN 1 + Indentation(Tail(l)) ELSE 0

\* The line without the spaces and tabs it starts with.
Unindented(l) == SubSeq(l, Indentation(l) + 1, Len(l))

\* The lines of the call's text that are to be shifted: the non-empty ones,
\* without the first when ignore_first is set.
Shifted ==
    {i \in 1 .. Len(Lines(walk.s)) :
        Lines(walk.s)[i] # <<>> /\ (walk.ignore_first => i > 1)}

\* C25: reindent_multiline shifts the non-empty lines (not the first when
\* ignore_first) by one common amount so that the least indented of them
\* has exactly `indent` leading spaces and tabs (0 for None); it changes
\* nothing but leading whitespace and leaves the other lines as they are.
C25_ReindentMultiline ==
    walk.op = "reindent_multiline"
    => LET in  == Lines(walk.s)
           out == IF in = <<>> THEN <<>> ELSE SplitLf(walk.out)
           n   == IF walk.indent.some THEN walk.indent.val ELSE 0
       IN  /\ Len(out) = Len(in)
           /\ \A i \in 1 .. Len(in) :
                 IF i \in Shifted
                 THEN Unindented(out[i]) = Unindented(in[i])
                 ELSE out[i] = in[i]
           /\ \E k \in -MaxWsLen .. MaxWsLen + MaxLen :
                 \A i \in Shifted : Indentation(out[i]) = Indentation(in[i]) + k
           /\ Shifted # {}
              => /\ \E i \in Shifted : Indentation(out[i]) = n
                 /\ \A i \in Shifted : Indentation(out[i]) >= n

----------------------------------------------------------------------------
(* edit_range (SpecEdit) *)

\* The operations built on edit_range.
EditOps ==
    {"remove_leading_whitespace", "add_trailing_whitespace", "add_leading_match",
     "add_trailing_match", "set_to_prefix", "set_to_suffix"}

\* The cursor's range is what it was before the call.
RangeUnchanged == cur.start = call.pre_start /\ cur.end = call.pre_end

----------------------------------------------------------------------------
(* Operations that return None (SpecFrame) *)

\* The operations that may return None.
OptionOps ==
    {"set_range_between_other", "set_start_if_before", "set_start_if_within",
     "set_end_if_after", "set_end_if_within", "edit_range"} \cup EditOps

\* C27: when set_range_between_other, a conditional setter, edit_range or
\* an operation built on it returns None, the cursor is there and its range
\* is what it was before the call.
C27_NoneLeavesRange ==
    (call.op \in OptionOps /\ ~call.res) => (cur.file # 0 /\ RangeUnchanged)

\* set_range_between_other returned None for a range that overlaps the
\* cursor's, which is not empty.
C27_Witness ==
    /\ call.op = "set_range_between_other"
    /\ ~call.res
    /\ call.pre_start < call.pre_end
    /\ call.lo - sm[cur.file].start_pos < call.pre_end
    /\ call.pre_start < call.hi - sm[cur.file].start_pos
    /\ RangeUnchanged

----------------------------------------------------------------------------
(* trim_span (SpecTrim) *)

\* The text s without the whitespace it starts and ends with.
Trimmed(s) ==
    LET black == {i \in 1 .. Len(s) : s[i] \notin {" ", "\n"}}
    IN  IF black = {} THEN <<>>
        ELSE SubSeq(s, CHOOSE i \in black : \A j \in black : i <= j,
                       CHOOSE i \in black : \A j \in black : j <= i)

\* C28: for a span whose text is available trim_span returns a span inside
\* it, in order, of the same context and parent, whose text is the span's
\* text without leading and trailing whitespace: the empty text for a span
\* of whitespace only.
C28_TrimSpan ==
    (walk.op = "trim_span" /\ AvailableAt(walk.d))
    => /\ walk.d.lo <= walk.out.lo
       /\ walk.out.lo <= walk.out.hi
       /\ walk.out.hi <= walk.d.hi
       /\ walk.out.ctxt = walk.d.ctxt
       /\ walk.out.parent = walk.d.parent
       /\ AvailableAt(walk.out)
       /\ TextAt(walk.out, <<>>) = Trimmed(TextAt(walk.d, <<>>))

----------------------------------------------------------------------------
(* position_before_rarrow (SpecRarrow) *)

\* The byte indices at which s has a `->`.
Arrows(s) == {i \in 0 .. Len(s) - 2 : SubSeq(s, i + 1, i + 2) = <<"-", ">">>}

\* The last `->` of s.
LastArrow(s) == CHOOSE i \in Arrows(s) : \A j \in Arrows(s) : j <= i

\* The byte index where the whitespace that ends just before byte index i
\* begins: i itself when no whitespace precedes i.
RunStart(s, i) ==
    CHOOSE k \in 0 .. i :
        /\ \A j \in k + 1 .. i : IsWhitespace(s[j])
        /\ k > 0 => ~IsWhitespace(s[k])

\* C29: position_before_rarrow(s) is None when s has no `->`; otherwise it
\* is the byte index where the whitespace just before the last `->` begins,
\* the index of that `->` when no whitespace precedes it.
C29_PositionBeforeRarrow ==
    walk.op = "position_before_rarrow"
    => IF Arrows(walk.s) = {} THEN walk.out = None
       ELSE walk.out = Some(RunStart(walk.s, LastArrow(walk.s)))

----------------------------------------------------------------------------
(* One applicability across calls (SpecApp) *)

\* The order of confidence: MachineApplicable > MaybeIncorrect >
\* HasPlaceholders > Unspecified.
Confidence(app) ==
    CASE app = "MachineApplicable" -> 3
      [] app = "MaybeIncorrect" -> 2
      [] app = "HasPlaceholders" -> 1
      [] app = "Unspecified" -> 0

\* C30: across the calls that share one applicability variable the
\* confidence never rises: no call leaves more confidence than it found,
\* a variable that has left MachineApplicable is not MachineApplicable again,
\* and one that has been HasPlaceholders is not MaybeIncorrect afterwards.
C30_ConfidenceNeverRises ==
    walk.op = "let_applicability"
    => /\ Confidence(walk.applicability) <= Confidence(walk.before)
       /\ walk.left => walk.applicability # "MachineApplicable"
       /\ walk.placeholders => walk.applicability # "MaybeIncorrect"

====
